---- MODULE Spec2Model ----
\* TLA+ model of the tai-discord-bot request pipeline:
\*   - the token-bucket rate limiter (src/src/middleware/rate-limiter.ts)
\*   - the permission classifier     (middleware/permissions.ts)
\*   - the two request handlers      (events/interactionCreate.ts, events/messageCreate.ts)
\*   - the agent loop                (services/agent.ts, processAgentRequest / executeTool)
\*
\* Time is the millisecond clock Date.now(). Token amounts are exact rationals,
\* stored as integer multiples of 1/TokenUnit of a token; TokenUnit is chosen so
\* that every tier's refill per millisecond is a whole number of units.
EXTENDS Integers, Sequences, FiniteSets, TLC

\* ---------------------------------------------------------------- bounds
\* the clock takes the values s*1000 and s*1000 + 1 milliseconds, s <= MaxSec
MaxSec == 1
\* checkRateLimit calls per bucket lifetime of the caller under study (SpecRate)
MaxChecks == 2
\* checkRateLimit calls per bucket lifetime of any other caller (SpecRate)
MaxOtherChecks == 1
\* checkRateLimit calls per bucket lifetime in the burst specification (SpecBurst)
MaxBurst == 101
\* checkRateLimit calls per bucket lifetime in the tier-change specification (SpecTier)
MaxTierChecks == 7
\* checkRateLimit calls of a caller's earlier traffic (SpecPipe)
MaxPriorChecks == 5
\* the sweeps of one run, and the checks of the caller that is swept
MaxSweeps == 1
MaxSweepChecks == 6
\* sustained traffic: the token periods the clock covers, and the checks made
\* beyond the capacity of the tier
MaxPeriods == 2
MaxExtraChecks == 2
\* the longest reply body, in characters
MaxBody == 2500

\* ---------------------------------------------------------------- rate limiter
Callers == {"u1", "u2"}
Tiers == {"free", "premium", "admin"}

\* units per token: 1 token = 6000 units, so that 10/60 token per second is
\* exactly 1 unit per millisecond
TokenUnit == 60 * 100

\* RATE_LIMITS: capacity in units, refill in units per millisecond
\* (refillRate tokens/second = refillRate * TokenUnit / 1000 units/ms)
RATE_LIMITS ==
  [ free    |-> [maxTokens |-> 5 * TokenUnit,   refillRate |-> (10 * TokenUnit) \div (60 * 1000)],
    premium |-> [maxTokens |-> 10 * TokenUnit,  refillRate |-> (60 * TokenUnit) \div (60 * 1000)],
    admin   |-> [maxTokens |-> 100 * TokenUnit, refillRate |-> (1000 * TokenUnit) \div (60 * 1000)] ]

NoBucket == [tokens |-> -1, lastRefillTime |-> -1, maxTokens |-> -1, refillRate |-> -1]
NoResult == [allowed |-> FALSE, remaining |-> -1, resetAt |-> -1, tier |-> "none", at |-> -1]
\* no comparison with an unswept limiter is kept
NoUnswept == [on |-> FALSE]
\* no window is watched
NoWindow == [on |-> FALSE]

Min(a, b) == IF a <= b THEN a ELSE b

Instants == {s * 1000 + f : s \in 0..MaxSec, f \in {0, 1}}

VARIABLES
  now,          \* Date.now(), in milliseconds
  rateLimits,   \* the Map rateLimits: caller -> bucket (NoBucket: no entry)
  lastResult,   \* per caller: the RateLimitResult of the most recent checkRateLimit
  burst,        \* per caller: bookkeeping of the checks since the bucket was created
  lastCleaned,  \* return value of the most recent cleanupRateLimits
  limits,       \* the traffic explored: checks per bucket lifetime, tier changes allowed
  unswept,      \* the same checks on a limiter that is never swept, kept where unswept.on
  window,       \* the allowed checks of one caller since an instant, kept where window.on
  \* --- one entry per request (a slash command or a mention being handled)
  world,        \* the environment explored: requests that arrive, provider responses
  req,          \* the inbound request: path, subcommand, prompt, caller
  pc,           \* where the request's handler is suspended
  perm,         \* permissionCheck of the handler
  rl,           \* rateLimitCheck of the handler
  ctx,          \* context handed to processAgentRequest
  replies,      \* what was delivered to the caller, in order
  stages,       \* the pipeline stages the request went through, in order
  \* --- processAgentRequest
  agentState,   \* Assembling, AwaitingModel, ExecutingTools, Done, Failed, Raised
  messages,     \* the message list sent with every model call
  iterations,   \* the loop counter
  totalTokens,  \* usage summed over the completed model calls
  response,     \* the latest model response
  toolResults,  \* the tool_result blocks of the batch being executed
  agentResult,  \* the AgentResponse returned
  modelCalls,   \* every model call made: its tool catalog and number of messages
  responses,    \* every model response received
  execLog,      \* every executeTool call made: [id, kind, raised, success, ops]
  failure,      \* the error of the model call that failed ("none": no call failed)
  \* --- the tracker client and the update_linear_issue tool
  setup,        \* the environment explored: tool invocations, their inputs, the clock
  tracker,      \* the tracker's side: entity lists, workflow states, the issue's labels
  cache,        \* the cache of the client: kind -> scope -> entry (NoEntry: none)
  fetches,      \* list calls in flight, and the number of list queries sent so far
  inv,          \* one entry per update_linear_issue invocation
  call,         \* the client operation called last, with its arguments
  ret,          \* what that call returned, or that it raised
  \* --- the context collector
  chat,         \* the transport's side: the messages of the channel and of its parent
  collect       \* the collector call in progress: its position, locals and result

rateVars == <<now, rateLimits, lastResult, burst, lastCleaned, limits, unswept, window>>
handlerVars == <<req, pc, perm, rl, ctx, replies, stages>>
agentVars == <<agentState, messages, iterations, totalTokens, response, toolResults,
               agentResult, modelCalls, responses, execLog, failure>>
linearVars == <<setup, tracker, cache, fetches, inv, call, ret>>
chatVars == <<chat, collect>>
vars == <<now, rateLimits, lastResult, burst, lastCleaned, limits, unswept, window, world,
          req, pc, perm, rl, ctx, replies, stages,
          agentState, messages, iterations, totalTokens, response, toolResults,
          agentResult, modelCalls, responses, execLog, failure,
          setup, tracker, cache, fetches, inv, call, ret,
          chat, collect>>

\* RefilledBucket without the cap at config.maxTokens
RefilledBucketUncapped(bucket, tier, t) ==
  LET config == RATE_LIMITS[tier] IN
  IF bucket = NoBucket
    THEN [tokens |-> config.maxTokens, lastRefillTime |-> t,
          maxTokens |-> config.maxTokens, refillRate |-> config.refillRate]
    ELSE [tokens |-> bucket.tokens + (t - bucket.lastRefillTime) * config.refillRate,
          lastRefillTime |-> t,
          maxTokens |-> config.maxTokens, refillRate |-> config.refillRate]

\* lines 40-57: the bucket the check works on, after initialisation or lazy refill
RefilledBucket(bucket, tier, t) ==
  LET config == RATE_LIMITS[tier] IN
  IF bucket = NoBucket
    THEN [tokens |-> config.maxTokens, lastRefillTime |-> t,
          maxTokens |-> config.maxTokens, refillRate |-> config.refillRate]
    ELSE LET timePassed == t - bucket.lastRefillTime
             tokensToAdd == timePassed * config.refillRate
         IN [tokens |-> Min(config.maxTokens, bucket.tokens + tokensToAdd),
             lastRefillTime |-> t,
             maxTokens |-> config.maxTokens, refillRate |-> config.refillRate]

\* ConsumeToken writing back the bucket as it was read
ConsumeTokenLost(b) == b

\* line 61: bucket.tokens -= 1
ConsumeToken(b) == [b EXCEPT !.tokens = @ - TokenUnit]

\* line 72: new Date((now + timeUntilRefill) * 1000): a Date holds whole
\* milliseconds, the fraction is cut off
ResetAt(b, tier, t) ==
  t + ((TokenUnit - b.tokens) \div RATE_LIMITS[tier].refillRate)

\* CheckOutcome allowing a bucket that is not empty (tokens >= 0 for tokens >= 1)
CheckOutcomeOffByOne(bucket, tier, t) ==
  LET b == RefilledBucket(bucket, tier, t) IN
  IF b.tokens >= 0
    THEN [bucket |-> ConsumeToken(b),
          result |-> [allowed |-> TRUE,
                      remaining |-> ConsumeToken(b).tokens \div TokenUnit,
                      resetAt |-> -1, tier |-> tier, at |-> t]]
    ELSE [bucket |-> b,
          result |-> [allowed |-> FALSE, remaining |-> 0,
                      resetAt |-> ResetAt(b, tier, t), tier |-> tier, at |-> t]]

\* lines 30-82: the stored bucket and the returned result
CheckOutcome(bucket, tier, t) ==
  LET b == RefilledBucket(bucket, tier, t) IN
  IF b.tokens >= TokenUnit
    THEN [bucket |-> ConsumeToken(b),
          result |-> [allowed |-> TRUE,
                      remaining |-> ConsumeToken(b).tokens \div TokenUnit,
                      resetAt |-> -1, tier |-> tier, at |-> t]]
    ELSE [bucket |-> b,
          result |-> [allowed |-> FALSE, remaining |-> 0,
                      resetAt |-> ResetAt(b, tier, t), tier |-> tier, at |-> t]]

\* ---------------------------------------------------------- tracker client
\* Text is a sequence of characters, so that toLowerCase, trim and includes are
\* computed. A tool argument arrives from the model unchecked: it is a string
\* (str = TRUE) or some other JSON value (str = FALSE).
MaxQueryLen == 2
MaxEntities == 2

QueryChars == {"a", "b", "A", " "}
Null == <<"null">>
Str(s) == [str |-> TRUE, chars |-> s]
NotAString == [str |-> FALSE, chars |-> <<>>]

LowerOf(c) == CASE c = "A" -> "a" [] c = "B" -> "b" [] OTHER -> c
toLowerCase(s) == [i \in 1..Len(s) |-> LowerOf(s[i])]

RECURSIVE trim(_)
trim(s) ==
  IF s = <<>> THEN <<>>
  ELSE IF Head(s) = " " THEN trim(Tail(s))
  ELSE IF s[Len(s)] = " " THEN trim(SubSeq(s, 1, Len(s) - 1))
  ELSE s

includes(s, sub) ==
  \E i \in 0..(Len(s) - Len(sub)) : SubSeq(s, i + 1, i + Len(sub)) = sub

Kinds == {"users", "labels", "projects"}

UserPool ==
  { [id |-> "U1", name |-> <<"A", "b">>, displayName |-> Null, email |-> <<"a", "@">>],
    [id |-> "U2", name |-> <<"a", "b", "b">>, displayName |-> <<"B">>, email |-> <<"b", "@">>],
    [id |-> "U3", name |-> <<"b", "a">>, displayName |-> <<"a", "b">>, email |-> <<"c", "@">>],
    [id |-> "U4", name |-> <<"B", "a", "b">>, displayName |-> Null, email |-> <<"a", "b">>] }
LabelPool ==
  { [id |-> "L1", name |-> <<"A", "b">>], [id |-> "L2", name |-> <<"a", "b", "b">>],
    [id |-> "L3", name |-> <<"b">>], [id |-> "L4", name |-> <<"b", "a">>] }
ProjectPool ==
  { [id |-> "P1", name |-> <<"A", "b">>], [id |-> "P2", name |-> <<"a", "b", "b">>],
    [id |-> "P3", name |-> <<"b">>], [id |-> "P4", name |-> <<"b", "a">>] }
PoolOf(kind) ==
  CASE kind = "users" -> UserPool [] kind = "labels" -> LabelPool [] OTHER -> ProjectPool

\* the lists the tracker can hold: at most MaxEntities entities, each once
ListsOf(pool) ==
  UNION { { l \in [1..n -> pool] : \A i, j \in 1..n : l[i] = l[j] => i = j } :
          n \in 0..MaxEntities }

RECURSIVE TextsUpTo(_)
TextsUpTo(n) ==
  IF n = 0 THEN { <<>> }
  ELSE TextsUpTo(n - 1) \cup
       { Append(s, c) : s \in { t \in TextsUpTo(n - 1) : Len(t) = n - 1 }, c \in QueryChars }
Queries ==
  { Str(s) : s \in TextsUpTo(MaxQueryLen) \cup { <<" ", "a", "b", " ">>, <<"a", "b", "b">>,
                                                 <<"a", "@">> } }
    \cup { NotAString }

\* what a find* function compares the query with
NameFields(kind, e) ==
  IF kind = "users"
    THEN << toLowerCase(e.name),
            toLowerCase(IF e.displayName = Null THEN <<>> ELSE e.displayName),
            toLowerCase(e.email) >>
    ELSE << toLowerCase(e.name) >>

NoEntity == [id |-> "none"]
NoError == [kind |-> "none", names |-> <<>>]
Raised == [raised |-> TRUE, success |-> FALSE, entity |-> NoEntity, error |-> NoError]
Found(e) == [raised |-> FALSE, success |-> TRUE, entity |-> e, error |-> NoError]
Failure(kind, names) ==
  [raised |-> FALSE, success |-> FALSE, entity |-> NoEntity,
   error |-> [kind |-> kind, names |-> names]]

\* Array.prototype.find: the first element that satisfies the test
RECURSIVE FirstIndex(_, _, _)
FirstIndex(l, i, hit) ==
  IF i > Len(l) THEN 0 ELSE IF i \in hit THEN i ELSE FirstIndex(l, i + 1, hit)

\* Array.prototype.filter, as the indices kept, in order
RECURSIVE Filtered(_, _, _)
Filtered(l, i, hit) ==
  IF i > Len(l) THEN <<>>
  ELSE IF i \in hit THEN <<l[i]>> \o Filtered(l, i + 1, hit) ELSE Filtered(l, i + 1, hit)

\* findByName with the partial matches counted before the exact match is tried
findByNamePartialFirst(kind, listResult, nameQuery) ==
  IF ~listResult.success THEN Failure("fetch", <<>>)
  ELSE IF ~nameQuery.str THEN Raised
  ELSE
    LET list == listResult.list
        nameLower == trim(toLowerCase(nameQuery.chars))
        partial == Filtered(list, 1, { i \in 1..Len(list) :
                     \E f \in 1..Len(NameFields(kind, list[i])) :
                        includes(NameFields(kind, list[i])[f], nameLower) })
    IN  IF Len(partial) = 1 THEN Found(partial[1])
        ELSE IF Len(partial) > 1
          THEN Failure("ambiguous", [i \in 1..Len(partial) |-> partial[i].name])
        ELSE Failure("notFound", <<>>)

\* findByName with the first partial match taken when several entities match
findByNameFirstPartial(kind, listResult, nameQuery) ==
  IF ~listResult.success THEN Failure("fetch", <<>>)
  ELSE IF ~nameQuery.str THEN Raised
  ELSE
    LET list == listResult.list
        nameLower == trim(toLowerCase(nameQuery.chars))
        exact == FirstIndex(list, 1, { i \in 1..Len(list) :
                   \E f \in 1..Len(NameFields(kind, list[i])) :
                      NameFields(kind, list[i])[f] = nameLower })
        partial == Filtered(list, 1, { i \in 1..Len(list) :
                     \E f \in 1..Len(NameFields(kind, list[i])) :
                        includes(NameFields(kind, list[i])[f], nameLower) })
    IN  IF exact > 0 THEN Found(list[exact])
        ELSE IF Len(partial) >= 1 THEN Found(partial[1])
        ELSE Failure("notFound", <<>>)

\* the body shared by findLinearUser, findLinearLabel and findLinearProject:
\* the list fetch failed; else toLowerCase of the query, which raises on a value
\* that is no string; else the first exact match; else the partial matches
findByName(kind, listResult, nameQuery) ==
  IF ~listResult.success THEN Failure("fetch", <<>>)
  ELSE IF ~nameQuery.str THEN Raised
  ELSE
    LET list == listResult.list
        nameLower == trim(toLowerCase(nameQuery.chars))
        exact == FirstIndex(list, 1, { i \in 1..Len(list) :
                   \E f \in 1..Len(NameFields(kind, list[i])) :
                      NameFields(kind, list[i])[f] = nameLower })
        partial == Filtered(list, 1, { i \in 1..Len(list) :
                     \E f \in 1..Len(NameFields(kind, list[i])) :
                        includes(NameFields(kind, list[i])[f], nameLower) })
    IN  IF exact > 0 THEN Found(list[exact])
        ELSE IF Len(partial) = 1 THEN Found(partial[1])
        ELSE IF Len(partial) > 1
          THEN Failure("ambiguous", [i \in 1..Len(partial) |-> partial[i].name])
        ELSE Failure("notFound", <<>>)

findLinearUser(listResult, nameQuery) == findByName("users", listResult, nameQuery)
findLinearLabel(listResult, nameQuery) == findByName("labels", listResult, nameQuery)
findLinearProject(listResult, nameQuery) == findByName("projects", listResult, nameQuery)

\* ------------------------------------------------ tracker client: requests
NoEntry == [data |-> <<>>, timestamp |-> -1]
MaxIdLen == 4

\* undefined, for a string, for a number and for a list of ids
Absent == "absent"
NoNumber == -1
NoIds == [given |-> FALSE, ids |-> {}]
Ids(set) == [given |-> TRUE, ids |-> set]
Coalesce(a, b) == IF a = Absent THEN b ELSE a
CoalesceNumber(a, b) == IF a = NoNumber THEN b ELSE a

StatusTokens == {"backlog", "todo", "in_progress", "done", "canceled"}
PriorityTokens == {"urgent", "high", "normal", "low"}
\* what a lookup in an object literal gives for a key of Object.prototype
Inherited == "member of Object.prototype"
InheritedKeys == {"toString", "constructor"}

\* lines 1207-1213: statusMap[status]
statusMap(status) ==
  CASE status = "backlog" -> "Backlog"
    [] status = "todo" -> "Todo"
    [] status = "in_progress" -> "In Progress"
    [] status = "done" -> "Done"
    [] status = "canceled" -> "Canceled"
    [] status \in InheritedKeys -> Inherited
    [] OTHER -> Absent

priorityToNumber(priority) ==
  CASE priority = "urgent" -> 1
    [] priority = "high" -> 2
    [] priority = "normal" -> 3
    [] priority = "low" -> 4
    [] OTHER -> 0

IdChars == {"C", "d", "7", "0", "-", " "}
Letters == {"C", "d"}
Digits == {"7", "0"}
DigitOf(c) == IF c = "7" THEN 7 ELSE 0

RECURSIVE IdsUpTo(_)
IdsUpTo(n) ==
  IF n = 0 THEN { <<>> }
  ELSE IdsUpTo(n - 1) \cup
       { Append(s, c) : s \in { t \in IdsUpTo(n - 1) : Len(t) = n - 1 }, c \in IdChars }
Identifiers == { Str(s) : s \in IdsUpTo(MaxIdLen) } \cup { NotAString }

\* the index after the longest run of characters of a class that starts at i
RECURSIVE SkipWhile(_, _, _)
SkipWhile(s, i, class) ==
  IF i <= Len(s) /\ s[i] \in class THEN SkipWhile(s, i + 1, class) ELSE i

NoMatch == [matched |-> FALSE, prefix |-> <<>>, digits |-> <<>>]

\* identifier.match with the hyphen optional
identifierMatchHyphenOptional(s) ==
  LET j == SkipWhile(s, 1, Letters)
      h == IF j <= Len(s) /\ s[j] = "-" THEN j + 1 ELSE j
      k == SkipWhile(s, h, Digits)
  IN  IF j > 1 /\ k > h /\ k = Len(s) + 1
        THEN [matched |-> TRUE, prefix |-> SubSeq(s, 1, j - 1),
              digits |-> SubSeq(s, h, Len(s))]
        ELSE NoMatch

\* identifier.match(/^([A-Z]+)-(\d+)$/i)
identifierMatch(s) ==
  LET j == SkipWhile(s, 1, Letters)
      k == IF j <= Len(s) /\ s[j] = "-" THEN SkipWhile(s, j + 1, Digits) ELSE 0
  IN  IF j > 1 /\ k > j + 1 /\ k = Len(s) + 1
        THEN [matched |-> TRUE, prefix |-> SubSeq(s, 1, j - 1),
              digits |-> SubSeq(s, j + 1, Len(s))]
        ELSE NoMatch

RECURSIVE parseInt(_)
parseInt(digits) ==
  IF digits = <<>> THEN 0
  ELSE parseInt(SubSeq(digits, 1, Len(digits) - 1)) * 10 + DigitOf(digits[Len(digits)])

NoRequest == [op |-> "none"]
Ok(value) == [raised |-> FALSE, success |-> TRUE, error |-> "none", value |-> value]
Failed(error) == [raised |-> FALSE, success |-> FALSE, error |-> error, value |-> <<>>]
FORMAT_ERROR == "Invalid identifier format"

\* lines 1139-1146: the variables of the create mutation
createRequest(input) ==
  [op |-> "issueCreate", title |-> input.title, priority |-> priorityToNumber(input.priority)]

\* lines 1194-1216: the variables of the search query
searchRequest(input) ==
  [op |-> "searchIssues",
   state |-> IF input.status = Absent THEN Absent
             ELSE Coalesce(statusMap(input.status), input.status),
   first |-> CoalesceNumber(input.limit, 5)]

\* lines 1311-1331: the variables of the list query
listRequest(input) ==
  [op |-> "listIssues",
   state |-> IF input.status = Absent THEN Absent
             ELSE Coalesce(statusMap(input.status), input.status),
   first |-> CoalesceNumber(input.limit, 10)]

\* lines 1263-1275: the query of getLinearIssue, when the identifier matches
getRequest(identifier) ==
  IF ~identifier.str THEN NoRequest
  ELSE LET match == identifierMatch(identifier.chars) IN
       IF ~match.matched THEN NoRequest
       ELSE [op |-> "getIssue", number |-> parseInt(match.digits)]

\* lines 1239-1284: what getLinearIssue returns without a query
getRejected(identifier) ==
  IF ~identifier.str THEN Failed("identifier.match is not a function")
  ELSE Failed(FORMAT_ERROR)

\* lines 1371-1382: the input of the update mutation holds the truthy fields
updateRequest(issueId, input) ==
  [op |-> "issueUpdate", id |-> issueId,
   title |-> input.title,
   priority |-> IF input.priority = Absent THEN NoNumber
               ELSE priorityToNumber(input.priority),
   stateId |-> input.stateId,
   assigneeId |-> input.assigneeId,
   labelIds |-> input.labelIds,
   projectId |-> input.projectId]

commentRequest(issueId, body) == [op |-> "commentCreate", id |-> issueId, body |-> body]
statusesRequest == [op |-> "statuses"]
listOfRequest(kind) == [op |-> kind, first |-> 100]

\* the ways a query can end: fetch rejects, a status that is not OK, a body
\* with errors, a body without data, data that lacks the object asked for
FailingReplies == { [kind |-> k] : k \in {"transport", "nonOK", "errors", "noData", "okNull"} }
Reply(data) == [kind |-> "ok", data |-> data]

\* lines 1069-1099
linearQuery(reply) ==
  CASE reply.kind = "transport" -> [threw |-> TRUE, message |-> "fetch failed"]
    [] reply.kind = "nonOK" -> [threw |-> TRUE, message |-> "Linear API error"]
    [] reply.kind = "errors" -> [threw |-> TRUE, message |-> "Linear GraphQL error"]
    [] reply.kind = "noData" -> [threw |-> TRUE, message |-> "Linear API returned no data"]
    [] reply.kind = "okNull" -> [threw |-> FALSE, null |-> TRUE]
    [] OTHER -> [threw |-> FALSE, null |-> FALSE, data |-> reply.data]

\* the part of an operation after its query: the catch block turns what
\* linearQuery threw, and a TypeError on missing data, into a failure
Completed(op, reply) ==
  LET q == linearQuery(reply) IN
  IF q.threw THEN Failed(q.message)
  ELSE IF q.null THEN Failed("Cannot read properties of null")
  ELSE CASE op = "issueCreate" ->
              IF q.data.success THEN Ok(q.data.issue) ELSE Failed("Issue creation failed")
         [] op = "issueUpdate" ->
              IF q.data.success THEN Ok(q.data.issue) ELSE Failed("Issue update failed")
         [] op = "commentCreate" ->
              IF q.data.success THEN Ok(q.data.comment) ELSE Failed("Comment creation failed")
         [] op = "getIssue" ->
              IF Len(q.data.nodes) > 0 THEN Ok(q.data.nodes[1]) ELSE Failed("Issue not found")
         [] OTHER -> Ok(q.data.nodes)

\* ---------------------------------------------------- tracker client: cache
CACHE_TTL_MS == 5 * 60 * 1000
Scopes == {"t1", "t2"}

\* getCached with an entry of exactly the TTL still served
FreshInclusive(entry, t) == entry # NoEntry /\ t - entry.timestamp <= CACHE_TTL_MS

\* lines 980-986: getCached returns the data of the entry
Fresh(entry, t) == entry # NoEntry /\ t - entry.timestamp < CACHE_TTL_MS

\* lines 988-990
setCache(c, kind, scope, data, t) ==
  [c EXCEPT ![kind][scope] = [data |-> data, timestamp |-> t]]

\* ------------------------------------------------- tracker client: at rest
Invs == {"i1", "i2"}
Slots == {"c1", "c2"}

NoSetup == [spec |-> "none"]
NoTracker == [users |-> <<>>, labels |-> <<>>, projects |-> <<>>, statuses |-> <<>>,
              issueLabels |-> {}]
NoRet == [raised |-> FALSE, success |-> FALSE]
NoFetch == [pc |-> "idle", op |-> "none", kind |-> "none", scope |-> "t1", args |-> <<>>,
            found |-> "none", request |-> NoRequest, queries |-> 0,
            result |-> NoRet]
NoIssue == [id |-> "none", number |-> -1, labels |-> {}]
NoToolResult == [success |-> FALSE, kind |-> "none", errors |-> <<>>]
NoInv == [pc |-> "idle", input |-> [identifier |-> [str |-> TRUE, chars |-> <<>>]],
          read |-> NoIssue, stateId |-> Absent, assigneeId |-> Absent, labelIds |-> NoIds,
          labelIdx |-> 0, projectId |-> Absent, errors |-> <<>>, outcomes |-> <<>>,
          sent |-> NoRequest, result |-> NoToolResult]
NoCall == [op |-> "none"]
EmptyCache == [k \in Kinds |-> [s \in Scopes |-> NoEntry]]
NoFetches == [slot |-> [c \in Slots |-> NoFetch], last |-> EmptyCache]

\* no collector call was made
NoChat == [op |-> "none", revision |-> "none", channel |-> <<>>, parent |-> <<>>,
           hasParent |-> FALSE]
NoCollect == [pc |-> "idle"]
InitChatIdle ==
  /\ chat = NoChat
  /\ collect = NoCollect

\* no client operation was called and no tool invocation has started
InitTrackerIdle ==
  /\ setup = NoSetup
  /\ tracker = NoTracker
  /\ cache = EmptyCache
  /\ fetches = NoFetches
  /\ inv = [i \in Invs |-> NoInv]
  /\ call = NoCall
  /\ ret = NoRet

InitLinearIdle ==
  /\ InitTrackerIdle
  /\ InitChatIdle

\* ---------------------------------------------------------------- requests
Reqs == {"r1", "r2"}

NoReq == [path |-> "none", sub |-> "none", text |-> "", prompt |-> "", feature |-> "none",
          caller |-> "none", member |-> [guild |-> FALSE, roles |-> {}]]
NoPerm == [allowed |-> FALSE, tier |-> "none", reason |-> "none"]
NoResponse == [stop |-> "none", text |-> "none", tools |-> <<>>, usage |-> 0]
NoAgentResult == [content |-> "none", tokensUsed |-> -1]
NoWorld == [reqs |-> {}, callers |-> {}, members |-> {}, texts |-> {}, subs |-> {},
            priorities |-> {}, priorTiers |-> {}, contexts |-> {}, remotes |-> {},
            responses |-> {}, providerFails |-> FALSE,
            transportFails |-> FALSE, clock |-> FALSE]

\* no request has arrived and no agent run has started
InitIdle ==
  /\ req = [r \in Reqs |-> NoReq]
  /\ pc = [r \in Reqs |-> "idle"]
  /\ perm = [r \in Reqs |-> NoPerm]
  /\ rl = [r \in Reqs |-> NoResult]
  /\ ctx = [r \in Reqs |-> <<>>]
  /\ replies = [r \in Reqs |-> <<>>]
  /\ stages = [r \in Reqs |-> <<>>]
  /\ agentState = [r \in Reqs |-> "Idle"]
  /\ messages = [r \in Reqs |-> <<>>]
  /\ iterations = [r \in Reqs |-> 0]
  /\ totalTokens = [r \in Reqs |-> 0]
  /\ response = [r \in Reqs |-> NoResponse]
  /\ toolResults = [r \in Reqs |-> <<>>]
  /\ agentResult = [r \in Reqs |-> NoAgentResult]
  /\ modelCalls = [r \in Reqs |-> <<>>]
  /\ responses = [r \in Reqs |-> <<>>]
  /\ execLog = [r \in Reqs |-> <<>>]
  /\ failure = [r \in Reqs |-> "none"]

NoBurst == [start |-> -1, tier |-> "none", allowed |-> 0, n |-> 0, last |-> -1]

\* bookkeeping: the checks a caller made since its bucket was created
BurstAfter(old, hadBucket, tier, t, allowed) ==
  LET inc == IF allowed THEN 1 ELSE 0 IN
  IF ~hadBucket
    THEN [start |-> t, tier |-> tier, allowed |-> inc, n |-> 1, last |-> t]
    ELSE [start |-> old.start,
          tier |-> IF old.tier = tier THEN tier ELSE "mixed",
          allowed |-> old.allowed + inc, n |-> old.n + 1, last |-> t]

InitRate ==
  /\ InitIdle
  /\ InitLinearIdle
  /\ world = NoWorld
  /\ now = 0
  /\ rateLimits = [u \in Callers |-> NoBucket]
  /\ lastResult = [u \in Callers |-> NoResult]
  /\ burst = [u \in Callers |-> NoBurst]
  /\ lastCleaned = 0
  /\ unswept = NoUnswept
  /\ window = NoWindow
  /\ limits = [checks |-> [u \in Callers |-> IF u = "u1" THEN MaxChecks ELSE MaxOtherChecks],
               tierChange |-> TRUE]

\* one caller, long bursts, one tier per bucket lifetime
InitBurst ==
  /\ InitIdle
  /\ InitLinearIdle
  /\ world = NoWorld
  /\ now = 0
  /\ rateLimits = [u \in Callers |-> NoBucket]
  /\ lastResult = [u \in Callers |-> NoResult]
  /\ burst = [u \in Callers |-> NoBurst]
  /\ lastCleaned = 0
  /\ unswept = NoUnswept
  /\ window = NoWindow
  /\ limits = [checks |-> [u \in Callers |-> IF u = "u1" THEN MaxBurst ELSE 0],
               tierChange |-> FALSE]

\* one caller whose tier may change while its bucket lives
InitTier ==
  /\ InitIdle
  /\ InitLinearIdle
  /\ world = NoWorld
  /\ now = 0
  /\ rateLimits = [u \in Callers |-> NoBucket]
  /\ lastResult = [u \in Callers |-> NoResult]
  /\ burst = [u \in Callers |-> NoBurst]
  /\ lastCleaned = 0
  /\ unswept = NoUnswept
  /\ window = NoWindow
  /\ limits = [checks |-> [u \in Callers |-> IF u = "u1" THEN MaxTierChecks ELSE 0],
               tierChange |-> TRUE]

\* the clock advances
Tick ==
  /\ \E t \in Instants : t > now /\ now' = t
  /\ UNCHANGED <<rateLimits, lastResult, burst, lastCleaned, limits, unswept, window>>
  /\ UNCHANGED <<world, chatVars, linearVars, handlerVars, agentVars>>

\* the check counted when it is allowed at or after the instant window.from
CheckedInWindow(u, tier) ==
  IF u = window.caller /\ now >= window.from
       /\ CheckOutcome(rateLimits[u], tier, now).result.allowed
    THEN [window EXCEPT !.allowed = @ + 1, !.last = now]
    ELSE window

\* the same check on the limiter that is never swept
CheckedUnswept(u, tier) ==
  LET out == CheckOutcome(unswept.rateLimits[u], tier, now) IN
  [unswept EXCEPT !.rateLimits[u] = out.bucket, !.lastResult[u] = out.result]

\* checkRateLimit storing the bucket under one key shared by every caller
checkRateLimitSharedKey(u, tier) ==
  /\ burst[u].n < limits.checks[u]
  /\ \/ rateLimits[u] = NoBucket
     \/ tier = lastResult[u].tier
     \/ limits.tierChange /\ burst[u].tier # "mixed"
  /\ LET out == CheckOutcome(rateLimits[u], tier, now) IN
       /\ rateLimits' = [b \in Callers |->
                           IF b = u \/ rateLimits[b] # NoBucket
                             THEN out.bucket ELSE rateLimits[b]]
       /\ lastResult' = [lastResult EXCEPT ![u] = out.result]
       /\ burst' = [burst EXCEPT ![u] =
                      BurstAfter(@, rateLimits[u] # NoBucket, tier, now, out.result.allowed)]
  /\ unswept' = IF unswept.on THEN CheckedUnswept(u, tier) ELSE unswept
  /\ window.on => tier = window.tier
  /\ window' = IF window.on THEN CheckedInWindow(u, tier) ELSE window
  /\ UNCHANGED <<now, lastCleaned, limits>>
  /\ UNCHANGED <<world, chatVars, linearVars, handlerVars, agentVars>>

\* checkRateLimit(userId, tier)
checkRateLimit(u, tier) ==
  /\ burst[u].n < limits.checks[u]
  /\ \/ rateLimits[u] = NoBucket
     \/ tier = lastResult[u].tier
     \/ limits.tierChange /\ burst[u].tier # "mixed"
  /\ LET out == CheckOutcome(rateLimits[u], tier, now) IN
       /\ rateLimits' = [rateLimits EXCEPT ![u] = out.bucket]
       /\ lastResult' = [lastResult EXCEPT ![u] = out.result]
       /\ burst' = [burst EXCEPT ![u] =
                      BurstAfter(@, rateLimits[u] # NoBucket, tier, now, out.result.allowed)]
  /\ unswept' = IF unswept.on THEN CheckedUnswept(u, tier) ELSE unswept
  /\ window.on => tier = window.tier
  /\ window' = IF window.on THEN CheckedInWindow(u, tier) ELSE window
  /\ UNCHANGED <<now, lastCleaned, limits>>
  /\ UNCHANGED <<world, chatVars, linearVars, handlerVars, agentVars>>

\* resetRateLimit(userId)
resetRateLimit(u) ==
  /\ rateLimits[u] # NoBucket
  /\ rateLimits' = [rateLimits EXCEPT ![u] = NoBucket]
  /\ burst' = [burst EXCEPT ![u] = NoBurst]
  /\ UNCHANGED <<now, lastResult, lastCleaned, limits, unswept, window>>
  /\ UNCHANGED <<world, chatVars, linearVars, handlerVars, agentVars>>

\* Expired taking an entry of exactly the maximal age as well
ExpiredInclusive(maxAgeSeconds, t) ==
  {u \in Callers : rateLimits[u] # NoBucket
                   /\ t - rateLimits[u].lastRefillTime >= maxAgeSeconds * 1000}

\* line 119: the entries cleanupRateLimits deletes
Expired(maxAgeSeconds, t) ==
  {u \in Callers : rateLimits[u] # NoBucket
                   /\ t - rateLimits[u].lastRefillTime > maxAgeSeconds * 1000}

\* cleanupRateLimits(maxAgeSeconds)
cleanupRateLimits(maxAgeSeconds) ==
  /\ rateLimits' = [u \in Callers |->
                      IF u \in Expired(maxAgeSeconds, now) THEN NoBucket ELSE rateLimits[u]]
  /\ burst' = [u \in Callers |->
                 IF u \in Expired(maxAgeSeconds, now) THEN NoBurst ELSE burst[u]]
  /\ lastCleaned' = Cardinality(Expired(maxAgeSeconds, now))
  /\ unswept.on => unswept.sweeps < MaxSweeps
  /\ unswept' = IF unswept.on
                  THEN [unswept EXCEPT !.sweeps = @ + 1,
                                       !.shortest = Min(@, maxAgeSeconds),
                                       !.maxAge = maxAgeSeconds]
                  ELSE unswept
  /\ UNCHANGED <<now, lastResult, limits, window>>
  /\ UNCHANGED <<world, chatVars, linearVars, handlerVars, agentVars>>

MaxAges == {0, 1}

NextRate ==
  \/ Tick
  \/ \E u \in Callers, tier \in Tiers : checkRateLimit(u, tier)
  \/ \E u \in Callers : resetRateLimit(u)
  \/ \E a \in MaxAges : cleanupRateLimits(a)

SpecRate == InitRate /\ [][NextRate]_vars
SpecBurst == InitBurst /\ [][NextRate]_vars
SpecTier == InitTier /\ [][NextRate]_vars

\* --- sweeps, next to the same checks on a limiter that is never swept
\* the time an empty bucket of a tier needs to be full again, in milliseconds
TimeToFull(tier) == RATE_LIMITS[tier].maxTokens \div RATE_LIMITS[tier].refillRate
LongestRefill == CHOOSE d \in { TimeToFull(tier) : tier \in Tiers } :
                   \A tier \in Tiers : TimeToFull(tier) <= d

\* the clock of the sweeps: one second, the longest refill and just after it
SweepInstants == {0, 1000, LongestRefill, LongestRefill + 1}
\* maxAgeSeconds: none, the longest refill, and the default of an hour
SweepAges == {0, LongestRefill \div 1000, 60 * 60}

SweepTick ==
  /\ unswept.on
  /\ \E t \in SweepInstants : t > now /\ now' = t
  /\ UNCHANGED <<rateLimits, lastResult, burst, lastCleaned, limits, unswept, window>>
  /\ UNCHANGED <<world, chatVars, linearVars, handlerVars, agentVars>>

InitSweep ==
  /\ InitIdle
  /\ InitLinearIdle
  /\ world = NoWorld
  /\ now = 0
  /\ rateLimits = [u \in Callers |-> NoBucket]
  /\ lastResult = [u \in Callers |-> NoResult]
  /\ burst = [u \in Callers |-> NoBurst]
  /\ lastCleaned = 0
  /\ unswept = [on |-> TRUE,
                rateLimits |-> [u \in Callers |-> NoBucket],
                lastResult |-> [u \in Callers |-> NoResult],
                sweeps |-> 0, shortest |-> 60 * 60, maxAge |-> 60 * 60]
  /\ window = NoWindow
  /\ limits = [checks |-> [u \in Callers |-> IF u = "u1" THEN MaxSweepChecks ELSE 1],
               tierChange |-> FALSE]

NextSweep ==
  \/ SweepTick
  \/ \E u \in Callers, tier \in Tiers : checkRateLimit(u, tier)
  \/ \E a \in SweepAges : cleanupRateLimits(a)

SpecSweep == InitSweep /\ [][NextSweep]_vars

\* --- sustained traffic of one caller at one tier, no reset and no sweep
\* the time one token takes to refill, in milliseconds
TokenPeriod(tier) == TokenUnit \div RATE_LIMITS[tier].refillRate
\* the clock of a tier: whole token periods, and one millisecond before the first
SustainedInstants(tier) ==
  {k * TokenPeriod(tier) : k \in 0..MaxPeriods} \cup {TokenPeriod(tier) - 1}

SustainedTick ==
  /\ window.on
  /\ \E t \in SustainedInstants(window.tier) : t > now /\ now' = t
  /\ UNCHANGED <<rateLimits, lastResult, burst, lastCleaned, limits, unswept, window>>
  /\ UNCHANGED <<world, chatVars, linearVars, handlerVars, agentVars>>

InitSustained ==
  /\ InitIdle
  /\ InitLinearIdle
  /\ world = NoWorld
  /\ now = 0
  /\ rateLimits = [u \in Callers |-> NoBucket]
  /\ lastResult = [u \in Callers |-> NoResult]
  /\ burst = [u \in Callers |-> NoBurst]
  /\ lastCleaned = 0
  /\ unswept = NoUnswept
  /\ \E tier \in Tiers : \E from \in SustainedInstants(tier) :
       /\ window = [on |-> TRUE, caller |-> "u1", tier |-> tier, from |-> from,
                    allowed |-> 0, last |-> from]
       /\ limits = [checks |-> [u \in Callers |->
                                  IF u = "u1"
                                    THEN RATE_LIMITS[tier].maxTokens \div TokenUnit
                                         + MaxExtraChecks
                                    ELSE 0],
                    tierChange |-> FALSE]

NextSustained ==
  \/ SustainedTick
  \/ \E tier \in Tiers : checkRateLimit("u1", tier)

SpecSustained == InitSustained /\ [][NextSustained]_vars

\* ---------------------------------------------------------------- agent
\* processAgentRequest and executeTool (services/agent.ts)

\* line 967: while (response.stop_reason === 'tool_use' && iterations < 5)
MAX_ITERATIONS == 5

APOLOGY == "Sorry, I encountered an error processing your request. Please try again."
NO_RESPONSE == "I processed your request but have no response."
NO_PROMPT == "Please provide a message."
\* the message of an error raised by the model provider
PROVIDER_ERROR == "529 overloaded_error"
\* the message of the error findLinearUser raises for an assignee that is not a string
TOOL_ERROR == "TypeError: nameQuery.toLowerCase is not a function"

LinearTools == {"create_linear_issue", "search_linear_issues", "get_linear_issue",
                "list_linear_issues", "update_linear_issue", "add_linear_comment",
                "list_issue_comments", "list_linear_users", "list_linear_labels",
                "list_linear_projects", "list_linear_cycles"}

\* lines 267-477: the tool catalog of a tier
getTools(tier) == IF tier = "free" THEN {} ELSE LinearTools

\* the tool_use blocks a response may carry:
\*   create      create_linear_issue with a title and a description
\*   update_bad  update_linear_issue whose assignee is not a string
\*   unknown     a name executeTool has no case for
ToolName(kind) ==
  CASE kind = "create" -> "create_linear_issue"
    [] kind = "update_bad" -> "update_linear_issue"
    [] OTHER -> "no_such_tool"

\* lines 482-901: executeTool. remote: does the tracker answer ("up") or not
\* ("down"). ops: the requests sent to the tracker. raised: the call threw.
\*   create_linear_issue (488-512): one mutation; the client returns success or failure
\*   update_linear_issue (599-733): getLinearIssue; when it fails: "Issue not found"
\*     (613-618); else findLinearUser (650), which after the member list is
\*     fetched calls nameQuery.toLowerCase() outside any try (part_010 1683): a
\*     TypeError for an assignee that is not a string, which executeTool does
\*     not catch
\*   default (895-899): "Unknown tool", no tracker request
executeTool(kind, remote) ==
  CASE kind = "create" ->
         [raised |-> FALSE, success |-> (remote = "up"), ops |-> <<"issueCreate">>]
    [] kind = "update_bad" ->
         IF remote = "up"
           THEN [raised |-> TRUE, success |-> FALSE, ops |-> <<"issues", "users">>]
           ELSE [raised |-> FALSE, success |-> FALSE, ops |-> <<"issues">>]
    [] OTHER ->
         [raised |-> FALSE, success |-> FALSE, ops |-> <<>>]

\* the responses of the model provider explored: stop_reason, the text block
\* ("none": no text block, "empty": a text block holding "", "some": holding
\* text), the tool_use blocks, input_tokens + output_tokens
ToolUseResponses ==
  { [stop |-> "tool_use", text |-> "none",  kinds |-> <<"create">>, usage |-> 7],
    [stop |-> "tool_use", text |-> "some",  kinds |-> <<"unknown", "create">>, usage |-> 9],
    [stop |-> "tool_use", text |-> "empty", kinds |-> <<"update_bad", "unknown">>, usage |-> 8] }
FinalResponses ==
  { [stop |-> "end_turn", text |-> "some",  kinds |-> <<>>, usage |-> 5],
    [stop |-> "end_turn", text |-> "none",  kinds |-> <<>>, usage |-> 3],
    [stop |-> "end_turn", text |-> "empty", kinds |-> <<>>, usage |-> 4] }
ModelResponses == ToolUseResponses \cup FinalResponses

TextOf(text) == IF text = "some" THEN "model text" ELSE ""

\* the context turns explored (ContextMessage: role, content)
Contexts ==
  { <<>>,
    << [role |-> "user", content |-> "earlier question"],
       [role |-> "assistant", content |-> " "],
       [role |-> "assistant", content |-> "earlier answer"] >> }

LastN(seq, n) ==
  IF Len(seq) <= n THEN seq ELSE SubSeq(seq, Len(seq) - n + 1, Len(seq))

TextTurn(role, content) ==
  [role |-> role, content |-> content, blocks |-> <<>>, results |-> <<>>]

\* lines 922-949: the initial message list: the last 10 context turns with
\* non-empty content, then the current request
RECURSIVE ContextTurns(_)
ContextTurns(c) ==
  IF c = <<>> THEN <<>>
  ELSE LET m == Head(c) IN
       IF m.content \in {"", " "} THEN ContextTurns(Tail(c))
       ELSE <<TextTurn(IF m.role = "user" THEN "user" ELSE "assistant", m.content)>>
            \o ContextTurns(Tail(c))

InitialMessages(context, content) ==
  ContextTurns(LastN(context, 10)) \o <<TextTurn("user", content)>>

\* lines 955-961 / 999-1005: what a model call carries
ModelCall(tier, msgs) == [tools |-> getTools(tier), nMessages |-> Len(msgs)]

\* lines 1010-1018: the AgentResponse of a run that ended with response resp
FinalContent(resp) ==
  IF resp.text = "none" THEN NO_RESPONSE ELSE TextOf(resp.text)

\* OnAgentError without the catch block: the error leaves processAgentRequest
OnAgentErrorRethrown(err, tokens) ==
  [state |-> "Raised", result |-> [content |-> err, tokensUsed |-> tokens]]

\* lines 1019-1027: the catch block of processAgentRequest
OnAgentError(err, tokens) ==
  [state |-> "Failed", result |-> [content |-> APOLOGY, tokensUsed |-> tokens]]

\* lines 982-987: the tool_result block of one executed invocation
ToolResultBlock(toolUse, out) ==
  [tool_use_id |-> toolUse.id, is_error |-> ~out.success]

\* lines 990-997: the two turns appended after a batch
BatchTurns(resp, results) ==
  << [role |-> "assistant", content |-> TextOf(resp.text), blocks |-> resp.tools,
      results |-> <<>>],
     [role |-> "user", content |-> "", blocks |-> <<>>, results |-> results] >>

\* content.trim() === ''
IsBlank(content) == content \in {"", " "}

\* processAgentRequest, lines 906-961: from the call to the first model call
processAgentRequest(r) ==
  /\ pc[r] = "agent" /\ agentState[r] = "Assembling"
  /\ IF IsBlank(req[r].prompt)
       THEN /\ agentState' = [agentState EXCEPT ![r] = "Done"]
            /\ agentResult' = [agentResult EXCEPT ![r] =
                                 [content |-> NO_PROMPT, tokensUsed |-> 0]]
            /\ messages' = [messages EXCEPT ![r] = ContextTurns(LastN(ctx[r], 10))]
            /\ UNCHANGED modelCalls
       ELSE /\ agentState' = [agentState EXCEPT ![r] = "AwaitingModel"]
            /\ messages' = [messages EXCEPT ![r] =
                              InitialMessages(ctx[r], req[r].prompt)]
            /\ modelCalls' = [modelCalls EXCEPT ![r] =
                 Append(@, ModelCall(perm[r].tier,
                                     InitialMessages(ctx[r], req[r].prompt)))]
            /\ UNCHANGED agentResult
  /\ stages' = [stages EXCEPT ![r] = Append(@, "orchestrate")]
  /\ UNCHANGED <<iterations, totalTokens, response, toolResults, responses, execLog, failure>>
  /\ UNCHANGED <<rateVars, world, chatVars, linearVars, req, pc, perm, rl, ctx, replies>>

\* the tool_use blocks of a response, with the ids the provider gave them
BlocksOf(kinds, callNo) ==
  [i \in 1..Len(kinds) |->
     [id |-> callNo * 10 + i, name |-> ToolName(kinds[i]), kind |-> kinds[i]]]

\* AddUsage keeping the usage of the latest call only
AddUsageLatest(total, resp) == resp.usage

\* lines 963 / 1007: totalTokens += usage.input_tokens + usage.output_tokens
AddUsage(total, resp) == total + resp.usage

\* lines 955-968 / 999-1018: a model call returns
ModelResponds(r, tmpl) ==
  /\ pc[r] = "agent" /\ agentState[r] = "AwaitingModel"
  /\ LET resp == [stop |-> tmpl.stop, text |-> tmpl.text,
                  tools |-> BlocksOf(tmpl.kinds, Len(modelCalls[r])),
                  usage |-> tmpl.usage]
         tokens == AddUsage(totalTokens[r], resp)
     IN /\ response' = [response EXCEPT ![r] = resp]
        /\ responses' = [responses EXCEPT ![r] = Append(@, resp)]
        /\ totalTokens' = [totalTokens EXCEPT ![r] = tokens]
        /\ IF resp.stop = "tool_use" /\ iterations[r] < MAX_ITERATIONS
             THEN /\ iterations' = [iterations EXCEPT ![r] = @ + 1]
                  /\ agentState' = [agentState EXCEPT ![r] = "ExecutingTools"]
                  /\ toolResults' = [toolResults EXCEPT ![r] = <<>>]
                  /\ UNCHANGED agentResult
             ELSE /\ agentState' = [agentState EXCEPT ![r] = "Done"]
                  /\ agentResult' = [agentResult EXCEPT ![r] =
                                       [content |-> FinalContent(resp), tokensUsed |-> tokens]]
                  /\ UNCHANGED <<iterations, toolResults>>
  /\ UNCHANGED <<messages, modelCalls, execLog, failure>>
  /\ UNCHANGED <<rateVars, world, chatVars, linearVars, handlerVars>>

\* a model call throws (transport or API error)
ModelFails(r) ==
  /\ pc[r] = "agent" /\ agentState[r] = "AwaitingModel"
  /\ world.providerFails
  /\ failure' = [failure EXCEPT ![r] = PROVIDER_ERROR]
  /\ LET c == OnAgentError(PROVIDER_ERROR, totalTokens[r]) IN
       /\ agentState' = [agentState EXCEPT ![r] = c.state]
       /\ agentResult' = [agentResult EXCEPT ![r] = c.result]
  /\ UNCHANGED <<messages, iterations, totalTokens, response, toolResults, modelCalls,
                 responses, execLog>>
  /\ UNCHANGED <<rateVars, world, chatVars, linearVars, handlerVars>>

\* lines 975-1005: the next executeTool call of the batch returns or throws;
\* after the last one the two turns are appended and the model is called again
ToolReturns(r, remote) ==
  /\ pc[r] = "agent" /\ agentState[r] = "ExecutingTools"
  /\ LET resp == response[r]
         toolUse == resp.tools[Len(toolResults[r]) + 1]
         out == executeTool(toolUse.kind, remote)
         results == Append(toolResults[r], ToolResultBlock(toolUse, out))
     IN /\ execLog' = [execLog EXCEPT ![r] =
             Append(@, [id |-> toolUse.id, kind |-> toolUse.kind, raised |-> out.raised,
                        success |-> out.success, ops |-> out.ops])]
        /\ IF out.raised
             THEN LET c == OnAgentError(TOOL_ERROR, totalTokens[r]) IN
                  /\ agentState' = [agentState EXCEPT ![r] = c.state]
                  /\ agentResult' = [agentResult EXCEPT ![r] = c.result]
                  /\ failure' = [failure EXCEPT ![r] = TOOL_ERROR]
                  /\ UNCHANGED <<toolResults, messages, modelCalls>>
             ELSE IF Len(results) < Len(resp.tools)
               THEN /\ toolResults' = [toolResults EXCEPT ![r] = results]
                    /\ UNCHANGED <<agentState, agentResult, messages, modelCalls, failure>>
               ELSE /\ toolResults' = [toolResults EXCEPT ![r] = results]
                    /\ UNCHANGED failure
                    /\ messages' = [messages EXCEPT ![r] = @ \o BatchTurns(resp, results)]
                    /\ modelCalls' = [modelCalls EXCEPT ![r] =
                         Append(@, ModelCall(perm[r].tier,
                                             messages[r] \o BatchTurns(resp, results)))]
                    /\ agentState' = [agentState EXCEPT ![r] = "AwaitingModel"]
                    /\ UNCHANGED agentResult
  /\ UNCHANGED <<iterations, totalTokens, response, responses>>
  /\ UNCHANGED <<rateVars, world, chatVars, linearVars, handlerVars>>

Remotes == {"up", "down"}

NextAgent ==
  \/ \E r \in world.reqs : processAgentRequest(r)
  \/ \E r \in world.reqs, tmpl \in world.responses : ModelResponds(r, tmpl)
  \/ \E r \in world.reqs : ModelFails(r)
  \/ \E r \in world.reqs, remote \in world.remotes : ToolReturns(r, remote)

\* one call of processAgentRequest, for every tier, context and prompt
InitAgent ==
  /\ InitLinearIdle
  /\ now = 0
  /\ rateLimits = [u \in Callers |-> NoBucket]
  /\ lastResult = [u \in Callers |-> NoResult]
  /\ burst = [u \in Callers |-> NoBurst]
  /\ lastCleaned = 0
  /\ unswept = NoUnswept
  /\ window = NoWindow
  /\ limits = [checks |-> [u \in Callers |-> 0], tierChange |-> FALSE]
  /\ world = [NoWorld EXCEPT !.reqs = {"r1"}, !.callers = {"u1"},
                              !.responses = ModelResponses, !.remotes = Remotes,
                              !.providerFails = TRUE]
  /\ \E tier \in Tiers, prompt \in {" ", "chat"} :
       /\ req = [r \in Reqs |-> IF r = "r1"
                   THEN [NoReq EXCEPT !.path = "slash", !.sub = "ask", !.text = prompt,
                                      !.prompt = prompt, !.feature = "basic_chat",
                                      !.caller = "u1"]
                   ELSE NoReq]
       /\ perm = [r \in Reqs |-> IF r = "r1"
                   THEN [allowed |-> TRUE, tier |-> tier, reason |-> "none"] ELSE NoPerm]
  /\ \E c \in Contexts : ctx = [r \in Reqs |-> IF r = "r1" THEN c ELSE <<>>]
  /\ pc = [r \in Reqs |-> IF r = "r1" THEN "agent" ELSE "idle"]
  /\ agentState = [r \in Reqs |-> IF r = "r1" THEN "Assembling" ELSE "Idle"]
  /\ rl = [r \in Reqs |-> NoResult]
  /\ replies = [r \in Reqs |-> <<>>]
  /\ stages = [r \in Reqs |-> <<>>]
  /\ messages = [r \in Reqs |-> <<>>]
  /\ iterations = [r \in Reqs |-> 0]
  /\ totalTokens = [r \in Reqs |-> 0]
  /\ response = [r \in Reqs |-> NoResponse]
  /\ toolResults = [r \in Reqs |-> <<>>]
  /\ agentResult = [r \in Reqs |-> NoAgentResult]
  /\ modelCalls = [r \in Reqs |-> <<>>]
  /\ responses = [r \in Reqs |-> <<>>]
  /\ execLog = [r \in Reqs |-> <<>>]
  /\ failure = [r \in Reqs |-> "none"]

SpecAgent == InitAgent /\ [][NextAgent]_vars

\* ---------------------------------------------------------------- permissions
\* middleware/permissions.ts

\* lines 10-59: the role map, in insertion order
ROLE_PERMISSIONS ==
  << [roleId |-> "ADMIN_ROLE_ID", tier |-> "admin",
      features |-> {"basic_chat", "linear_access", "linear_create", "linear_update",
                    "supabase_query", "notion_search", "admin_tools"}],
     [roleId |-> "DEVELOPER_ROLE_ID", tier |-> "premium",
      features |-> {"basic_chat", "linear_access", "linear_create", "linear_update",
                    "supabase_query", "notion_search"}],
     [roleId |-> "MEMBER_ROLE_ID", tier |-> "free",
      features |-> {"basic_chat", "linear_create", "notion_search"}] >>

\* lines 64-70
DEFAULT_PERMISSION == [roleId |-> "default", tier |-> "free", features |-> {"basic_chat"}]

\* line 114
tierPriority == <<"admin", "premium", "free">>

\* the member a handler gets: none outside a guild, else the member's role ids
NoMember == [guild |-> FALSE, roles |-> {}]
Members ==
  { NoMember,
    [guild |-> TRUE, roles |-> {}],
    [guild |-> TRUE, roles |-> {"MEMBER_ROLE_ID"}],
    [guild |-> TRUE, roles |-> {"DEVELOPER_ROLE_ID", "OTHER_ROLE_ID"}],
    [guild |-> TRUE, roles |-> {"ADMIN_ROLE_ID", "MEMBER_ROLE_ID"}] }

\* lines 116-122: the two loops; 0 when no role of the member is mapped
RECURSIVE FirstOfTier(_, _, _, _)
FirstOfTier(perms, i, tier, roles) ==
  IF i > Len(perms) THEN 0
  ELSE IF perms[i].tier = tier /\ perms[i].roleId \in roles THEN i
  ELSE FirstOfTier(perms, i + 1, tier, roles)

RECURSIVE FirstByPriority(_, _, _)
FirstByPriority(perms, k, roles) ==
  IF k > Len(tierPriority) THEN 0
  ELSE IF FirstOfTier(perms, 1, tierPriority[k], roles) # 0
    THEN FirstOfTier(perms, 1, tierPriority[k], roles)
  ELSE FirstByPriority(perms, k + 1, roles)

\* getUserPermission returning the first mapped role in the order of the map
getUserPermissionFirstRole(member, perms) ==
  LET mapped == { k \in 1..Len(perms) : perms[k].roleId \in member.roles } IN
  IF ~member.guild \/ mapped = {} THEN DEFAULT_PERMISSION
  ELSE perms[CHOOSE k \in mapped : \A m \in mapped : k <= m]

\* lines 110-125
getUserPermission(member, perms) ==
  IF ~member.guild THEN DEFAULT_PERMISSION
  ELSE IF FirstByPriority(perms, 1, member.roles) # 0
    THEN perms[FirstByPriority(perms, 1, member.roles)]
  ELSE DEFAULT_PERMISSION

\* lines 75-105
checkPermissions(member, feature) ==
  LET permission == getUserPermission(member, ROLE_PERMISSIONS) IN
  IF feature \in permission.features
    THEN [allowed |-> TRUE, tier |-> permission.tier, reason |-> "none"]
    ELSE [allowed |-> FALSE, tier |-> permission.tier,
          reason |-> "You do not have permission for " \o feature]

\* ---------------------------------------------------------------- handlers
\* events/interactionCreate.ts (slash commands), events/messageCreate.ts (mentions)

Subcommands == {"ask", "create-issue", "query", "search"}

\* interactionCreate.ts lines 38-44
featureMap(sub) ==
  CASE sub = "ask" -> "basic_chat"
    [] sub = "create-issue" -> "linear_access"
    [] sub = "query" -> "supabase_query"
    [] sub = "search" -> "notion_search"
    [] OTHER -> "basic_chat"

\* commands/tai.ts lines 115-142, then interactionCreate.ts lines 84-87
parseTaiCommand(sub, text) ==
  CASE sub = "ask" -> text
    [] sub = "create-issue" -> "Create a Linear issue: " \o text
    [] sub = "query" -> "Execute SQL query: " \o text
    [] sub = "search" -> "Search Notion for: " \o text
    [] OTHER -> ""

enhancedPrompt(sub, text, priority) ==
  IF priority # "" THEN parseTaiCommand(sub, text) \o " [Priority: " \o priority \o "]"
  ELSE parseTaiCommand(sub, text)

\* what callers type
BUG_TICKET == "create a bug ticket"
Texts == {"", "chat", BUG_TICKET}

\* the request asks for a write to the tracker
RequiresTrackerWrite(q) == q.sub = "create-issue" \/ q.text = BUG_TICKET

GREETING == "Hi! You can ask me anything. Try: @TAIBot help me create a bug ticket"
HANDLER_APOLOGY == "Sorry, I encountered an error processing your request. Please try again later."

\* Admit with the rate limit checked before the permission is looked at
AdmitUnclassified(permission, bucket, t) ==
  [checked |-> TRUE,
   bucket |-> CheckOutcome(bucket, permission.tier, t).bucket,
   result |-> CheckOutcome(bucket, permission.tier, t).result]

\* permission check, then rate limit check (interactionCreate.ts 50-67,
\* messageCreate.ts 46-59): the bucket is read and written only when the
\* permission check allowed the request
Admit(permission, bucket, t) ==
  IF permission.allowed
    THEN [checked |-> TRUE,
          bucket |-> CheckOutcome(bucket, permission.tier, t).bucket,
          result |-> CheckOutcome(bucket, permission.tier, t).result]
    ELSE [checked |-> FALSE, bucket |-> bucket, result |-> NoResult]

\* where the handler is suspended next
AfterAdmission(path, permission, result) ==
  IF ~permission.allowed THEN "replyDenied"
  ELSE IF ~result.allowed THEN "replyLimited"
  ELSE IF path = "slash" THEN "deferReply" ELSE "sendTyping"

\* the handler's synchronous run from checkPermissions to the next await
Classify(r, q) ==
  LET u == q.caller
      permission == checkPermissions(q.member, q.feature)
      a == Admit(permission, rateLimits[u], now)
  IN /\ perm' = [perm EXCEPT ![r] = permission]
     /\ rl' = [rl EXCEPT ![r] = a.result]
     /\ rateLimits' = [rateLimits EXCEPT ![u] = a.bucket]
     /\ lastResult' = [lastResult EXCEPT ![u] = IF a.checked THEN a.result ELSE @]
     /\ burst' = [burst EXCEPT ![u] =
                    IF a.checked
                      THEN BurstAfter(@, rateLimits[u] # NoBucket, permission.tier, now,
                                      a.result.allowed)
                      ELSE @]
     /\ stages' = [stages EXCEPT ![r] =
                     IF a.checked THEN @ \o <<"classify", "admit">> ELSE @ \o <<"classify">>]
     /\ pc' = [pc EXCEPT ![r] = AfterAdmission(q.path, permission, a.result)]

\* a request arrives: up to the first await of its handler
Arrive(r, q) ==
  /\ req' = [req EXCEPT ![r] = q]
  /\ IF q.path = "mention" /\ q.prompt = ""
       THEN /\ pc' = [pc EXCEPT ![r] = "replyGreeting"]
            /\ UNCHANGED <<perm, rl, stages, rateLimits, lastResult, burst>>
       ELSE IF q.member.guild
         THEN /\ pc' = [pc EXCEPT ![r] = "fetchMember"]
              /\ UNCHANGED <<perm, rl, stages, rateLimits, lastResult, burst>>
         ELSE Classify(r, q)
  /\ UNCHANGED <<now, lastCleaned, limits, unswept, window, world, chatVars, linearVars, ctx, replies, agentVars>>

\* messageCreate.ts lines 22-59
handleMessageCreate(r, u, member, text) ==
  /\ pc[r] = "idle"
  /\ Arrive(r, [path |-> "mention", sub |-> "none", text |-> text,
                prompt |-> IF text \in {"", " "} THEN "" ELSE text,
                feature |-> "basic_chat", caller |-> u, member |-> member])

\* interactionCreate.ts lines 24-67
handleInteractionCreate(r, u, member, sub, text, priority) ==
  /\ pc[r] = "idle"
  /\ priority # "" => sub = "create-issue"
  /\ Arrive(r, [path |-> "slash", sub |-> sub, text |-> text,
                prompt |-> enhancedPrompt(sub, text, priority),
                feature |-> featureMap(sub), caller |-> u, member |-> member])

\* guild.members.fetch resolves
MemberFetched(r) ==
  /\ pc[r] = "fetchMember"
  /\ Classify(r, req[r])
  /\ UNCHANGED <<now, lastCleaned, limits, unswept, window, world, chatVars, linearVars, req, ctx, replies, agentVars>>

\* the calls to the chat transport a handler awaits: where it goes when the
\* call resolves, where when it rejects, and what the call delivers
\*   slash   (interactionCreate.ts): reply 52 / 62, deferReply 70, editReply 103, 108
\*   mention (messageCreate.ts): reply 40 / 48 / 55, sendTyping 63, react 67,
\*           remove 93, reply 97, react 100, remove 105, react 108, reply 111
OnResolve(at) ==
  CASE at \in {"replyGreeting", "replyDenied", "replyLimited"} -> "done"
    [] at = "deferReply" -> "collect"
    [] at = "sendTyping" -> "reactThinking"
    [] at = "reactThinking" -> "collect"
    [] at = "editReply" -> "done"
    [] at = "catchEditReply" -> "done"
    [] at = "removeThinking" -> "replyAnswer"
    [] at = "replyAnswer" -> "reactSuccess"
    [] at = "reactSuccess" -> "done"
    [] at = "catchRemove" -> "catchReact"
    [] at = "catchReact" -> "catchReply"
    [] at = "catchReply" -> "done"

OnReject(at) ==
  CASE at = "editReply" -> "catchEditReply"
    [] at \in {"removeThinking", "replyAnswer", "reactSuccess"} -> "catchRemove"
    [] OTHER -> "rejected"

TransportCalls ==
  {"replyGreeting", "replyDenied", "replyLimited", "deferReply", "sendTyping",
   "reactThinking", "editReply", "catchEditReply", "removeThinking", "replyAnswer",
   "reactSuccess", "catchRemove", "catchReact", "catchReply"}

\* services/response-formatter.ts. A reply body is a string of the handlers'
\* texts or a sequence of characters; both have a length
DISCORD_MAX_LENGTH == 2000

\* line 43: '\n\n*...message truncated*'
ellipsis ==
  << "\n", "\n", "*", ".", ".", ".", "m", "e", "s", "s", "a", "g", "e", " ",
     "t", "r", "u", "n", "c", "a", "t", "e", "d", "*" >>

\* String.prototype.lastIndexOf(searchString, position): the largest index, at
\* most position, at which searchString starts; -1 when there is none
lastIndexOf(s, searchString, position) ==
  LET last == Min(position, Len(s) - Len(searchString))
      hits == {k \in 0..last : /\ s[k + 1] = searchString[1]
                               /\ SubSeq(s, k + 1, k + Len(searchString)) = searchString}
  IN IF hits = {} THEN -1 ELSE CHOOSE k \in hits : \A j \in hits : j <= k

\* String.prototype.slice(0, end), end >= 0
slice(s, end) == SubSeq(s, 1, Min(end, Len(s)))

\* lines 42-66: truncateMessage; x > targetLength * 0.7 is 10 x > 7 targetLength
truncateMessage(content, maxLength) ==
  LET targetLength == maxLength - Len(ellipsis)
      paragraphBreak == lastIndexOf(content, <<"\n", "\n">>, targetLength)
      sentenceBreak == lastIndexOf(content, <<".", " ">>, targetLength)
      wordBreak == lastIndexOf(content, <<" ">>, targetLength)
  IN IF paragraphBreak * 10 > targetLength * 7
       THEN slice(content, paragraphBreak) \o ellipsis
     ELSE IF sentenceBreak * 10 > targetLength * 7
       THEN slice(content, sentenceBreak + 1) \o ellipsis
     ELSE IF wordBreak * 2 > targetLength
       THEN slice(content, wordBreak) \o ellipsis
     ELSE slice(content, targetLength) \o ellipsis

\* lines 16-37: formatResponse; the AgentResponse of processAgentRequest never
\* carries actions, so lines 20-29 add nothing
formatResponse(result) ==
  IF Len(result.content) > DISCORD_MAX_LENGTH
    THEN truncateMessage(result.content, DISCORD_MAX_LENGTH)
    ELSE result.content

Delivered(r, at) ==
  CASE at = "replyGreeting" -> <<[kind |-> "greeting", text |-> GREETING]>>
    [] at = "replyDenied" -> <<[kind |-> "denied", text |-> perm[r].reason]>>
    [] at = "replyLimited" -> <<[kind |-> "limited", text |-> "Rate limit reached"]>>
    [] at \in {"editReply", "replyAnswer"} ->
         <<[kind |-> "answer", text |-> formatResponse(agentResult[r])]>>
    [] at \in {"catchEditReply", "catchReply"} ->
         <<[kind |-> "apology", text |-> HANDLER_APOLOGY]>>
    [] OTHER -> <<>>

\* an awaited transport call resolves or rejects
TransportCall(r, ok) ==
  /\ pc[r] \in TransportCalls
  /\ ok \/ world.transportFails
  /\ pc' = [pc EXCEPT ![r] = IF ok THEN OnResolve(@) ELSE OnReject(@)]
  /\ replies' = [replies EXCEPT ![r] = IF ok THEN @ \o Delivered(r, pc[r]) ELSE @]
  /\ UNCHANGED <<rateVars, world, chatVars, linearVars, req, perm, rl, ctx, stages, agentVars>>

\* guild.members.fetch rejects: the handler's promise rejects
MemberFetchFails(r) ==
  /\ pc[r] = "fetchMember"
  /\ world.transportFails
  /\ pc' = [pc EXCEPT ![r] = "rejected"]
  /\ UNCHANGED <<rateVars, world, chatVars, linearVars, req, perm, rl, ctx, replies, stages, agentVars>>

\* collectContext / collectThreadContext / collectReplyContext resolves and
\* processAgentRequest is called
ContextCollected(r, c) ==
  /\ pc[r] = "collect"
  /\ ctx' = [ctx EXCEPT ![r] = c]
  /\ stages' = [stages EXCEPT ![r] = Append(@, "context")]
  /\ pc' = [pc EXCEPT ![r] = "agent"]
  /\ agentState' = [agentState EXCEPT ![r] = "Assembling"]
  /\ UNCHANGED <<rateVars, world, chatVars, linearVars, req, perm, rl, replies>>
  /\ UNCHANGED <<messages, iterations, totalTokens, response, toolResults, agentResult,
                 modelCalls, responses, execLog, failure>>

\* processAgentRequest resolved: the handler goes on to deliver the answer
AgentReturns(r) ==
  /\ pc[r] = "agent" /\ agentState[r] \in {"Done", "Failed"}
  /\ pc' = [pc EXCEPT ![r] = IF req[r].path = "slash" THEN "editReply" ELSE "removeThinking"]
  /\ UNCHANGED <<rateVars, world, chatVars, linearVars, req, perm, rl, ctx, replies, stages, agentVars>>

\* earlier traffic of a caller, as far as the bucket sees it
EarlierCheck(u, tier) ==
  /\ \A r \in Reqs : pc[r] = "idle"
  /\ checkRateLimit(u, tier)

\* the clock advances while a request may still reach its rate limit check
PipeTick ==
  /\ world.clock
  /\ \E r \in world.reqs : pc[r] \in {"idle", "fetchMember"}
  /\ Tick

NextPipe ==
  \/ PipeTick
  \/ \E u \in world.callers, tier \in world.priorTiers : EarlierCheck(u, tier)
  \/ \E r \in world.reqs, u \in world.callers, m \in world.members, text \in world.texts :
       handleMessageCreate(r, u, m, text)
  \/ \E r \in world.reqs, u \in world.callers, m \in world.members, sub \in world.subs,
        text \in world.texts, priority \in world.priorities :
       handleInteractionCreate(r, u, m, sub, text, priority)
  \/ \E r \in world.reqs : MemberFetched(r)
  \/ \E r \in world.reqs : MemberFetchFails(r)
  \/ \E r \in world.reqs, ok \in BOOLEAN : TransportCall(r, ok)
  \/ \E r \in world.reqs, c \in world.contexts : ContextCollected(r, c)
  \/ \E r \in world.reqs : processAgentRequest(r)
  \/ \E r \in world.reqs, tmpl \in world.responses : ModelResponds(r, tmpl)
  \/ \E r \in world.reqs : ModelFails(r)
  \/ \E r \in world.reqs, remote \in world.remotes : ToolReturns(r, remote)
  \/ \E r \in world.reqs : AgentReturns(r)

\* the environments explored:
\*   one request of any kind by any member, with failing transport and provider,
\*     after a burst of earlier requests
\*   two concurrent requests of one caller, after earlier requests, as time passes
OneRequest ==
  [reqs |-> {"r1"}, callers |-> {"u1"}, members |-> Members,
   texts |-> Texts, subs |-> Subcommands, priorities |-> {"", "high"},
   priorTiers |-> {"free"}, contexts |-> Contexts, remotes |-> {"up"},
   responses |-> { [stop |-> "tool_use", text |-> "none", kinds |-> <<"create">>, usage |-> 7],
                   [stop |-> "end_turn", text |-> "some", kinds |-> <<>>, usage |-> 5] },
   providerFails |-> TRUE, transportFails |-> TRUE, clock |-> FALSE]
TwoRequests ==
  [reqs |-> {"r1", "r2"}, callers |-> {"u1"}, members |-> {[guild |-> TRUE, roles |-> {}]},
   texts |-> {"chat"}, subs |-> {"ask"}, priorities |-> {""},
   priorTiers |-> {"free"}, contexts |-> {<<>>}, remotes |-> {"up"},
   responses |-> { [stop |-> "end_turn", text |-> "some", kinds |-> <<>>, usage |-> 5] },
   providerFails |-> FALSE, transportFails |-> FALSE, clock |-> TRUE]

InitPipe ==
  /\ InitIdle
  /\ InitLinearIdle
  /\ world \in {OneRequest, TwoRequests}
  /\ now = 0
  /\ rateLimits = [u \in Callers |-> NoBucket]
  /\ lastResult = [u \in Callers |-> NoResult]
  /\ burst = [u \in Callers |-> NoBurst]
  /\ lastCleaned = 0
  /\ unswept = NoUnswept
  /\ window = NoWindow
  /\ limits = [checks |-> [u \in Callers |-> IF u = "u1" THEN MaxPriorChecks ELSE 0],
               tierChange |-> FALSE]

SpecPipe == InitPipe /\ [][NextPipe]_vars

\* ================================================================ claims

\* ---------------------------------------------------------------- C1
\* C1: whatever checks (at any tiers), resets and sweeps happened, a stored
\* bucket holds at least 0 tokens and at most the capacity of the tier that the
\* caller's most recent check used.
C1_TokensWithinCapacity ==
  \A u \in Callers :
    rateLimits[u] # NoBucket =>
      /\ lastResult[u].tier \in Tiers
      /\ 0 <= rateLimits[u].tokens
      /\ rateLimits[u].tokens <= RATE_LIMITS[lastResult[u].tier].maxTokens

\* a bucket filled at one tier was checked, after some time, at the free tier:
\* the refill was capped at the free capacity before the token was taken
C1_Witness ==
  \E u \in Callers :
    /\ rateLimits[u] # NoBucket
    /\ burst[u].tier = "mixed"
    /\ lastResult[u].tier = "free"
    /\ burst[u].last > burst[u].start
    /\ rateLimits[u].tokens = RATE_LIMITS["free"].maxTokens - TokenUnit

\* ---------------------------------------------------------------- C2
\* the step is a checkRateLimit call of caller u
Checked(u) == burst'[u].n = burst[u].n + 1

\* what the bucket of u holds at the check, after the lazy refill, stated from
\* the stored bucket and the tier of the result
AvailableAtCheck(u) ==
  LET cfg == RATE_LIMITS[lastResult'[u].tier] IN
  IF rateLimits[u] = NoBucket THEN cfg.maxTokens
  ELSE Min(cfg.maxTokens,
           rateLimits[u].tokens + (now - rateLimits[u].lastRefillTime) * cfg.refillRate)

\* allowed iff at least one token after the refill; allowed: exactly one token
\* deducted, remaining = floor(tokens left); denied: nothing deducted, remaining 0
AdmissionRule(u) ==
  LET res == lastResult'[u]
      avail == AvailableAtCheck(u)
      left == rateLimits'[u].tokens
  IN /\ res.allowed <=> avail >= TokenUnit
     /\ res.allowed =>
          /\ left = avail - TokenUnit
          /\ res.remaining * TokenUnit <= left
          /\ left < (res.remaining + 1) * TokenUnit
     /\ ~res.allowed => left = avail /\ res.remaining = 0

\* C2: a check allows iff the refilled bucket holds at least one token; allowed:
\* exactly one token deducted, remaining = floor(tokens left); denied: nothing
\* deducted, remaining 0, and a reset instant equal to
\* now + (1 - tokens) / refillRate
C2_ResetInstantExact ==
  [][\A u \in Callers : Checked(u) =>
       /\ AdmissionRule(u)
       /\ ~lastResult'[u].allowed =>
            (lastResult'[u].resetAt - now) * RATE_LIMITS[lastResult'[u].tier].refillRate
              = TokenUnit - AvailableAtCheck(u)]_vars

\* ---------------------------------------------------------------- C3
CapacityOf(tier) == RATE_LIMITS[tier].maxTokens \div TokenUnit

\* C3 as stated: from a fresh bucket at one tier, while fewer than `capacity`
\* seconds have elapsed, no more than `capacity` checks were allowed
C3_BurstWithinCapacitySeconds ==
  \A u \in Callers :
    (burst[u].tier \in Tiers
      /\ burst[u].last - burst[u].start < CapacityOf(burst[u].tier) * 1000)
    => burst[u].allowed <= CapacityOf(burst[u].tier)

\* C3 (amended): from a fresh bucket at one tier, while less than the time one
\* token takes to refill (1 / refillRate seconds) has elapsed, no more than
\* `capacity` checks were allowed
C3_BurstWithinOneRefill ==
  \A u \in Callers :
    (burst[u].tier \in Tiers
      /\ (burst[u].last - burst[u].start) * RATE_LIMITS[burst[u].tier].refillRate < TokenUnit)
    => burst[u].allowed <= CapacityOf(burst[u].tier)

\* a burst that used up the whole capacity and was then denied, some time after
\* the bucket was created but before one token was refilled
C3_Witness ==
  \E u \in Callers :
    /\ burst[u].tier \in Tiers
    /\ burst[u].last > burst[u].start
    /\ (burst[u].last - burst[u].start) * RATE_LIMITS[burst[u].tier].refillRate < TokenUnit
    /\ burst[u].allowed = CapacityOf(burst[u].tier)
    /\ burst[u].n > burst[u].allowed


\* ---- agent claims

Ended(r) == agentState[r] \in {"Done", "Failed"}

AlwaysRequestsTool(r) ==
  /\ Len(responses[r]) > 0
  /\ \A i \in 1..Len(responses[r]) : responses[r][i].stop = "tool_use"

LastResponse(r) == responses[r][Len(responses[r])]

\* C7: a run in which the model provider answered every call, and every answer
\* requested a tool, ends after exactly MAX_ITERATIONS tool rounds with a
\* non-empty content: the text of the last response when it has any, else the
\* fallback message.
C7_ToolLoopEndsAtBound ==
  \A r \in Reqs :
    (Ended(r) /\ failure[r] # PROVIDER_ERROR /\ AlwaysRequestsTool(r)) =>
      /\ iterations[r] = MAX_ITERATIONS
      /\ agentState[r] = "Done"
      /\ agentResult[r].content # ""
      /\ agentResult[r].content =
           (IF LastResponse(r).text = "some" THEN TextOf("some") ELSE NO_RESPONSE)

BatchIds(batch) == {batch[i].id : i \in 1..Len(batch)}

ExecutionOf(r, id) ==
  CHOOSE e \in {execLog'[r][j] : j \in 1..Len(execLog'[r])} : e.id = id

\* C8: whenever the run leaves the execution of a batch of n invocations, all n
\* were executed, the message list gained the assistant turn and then one
\* tool-result turn of n results in invocation order, each with its invocation
\* id and is_error = not success, and the model is called again.
C8_WholeBatchFedBack ==
  [][\A r \in Reqs :
       (agentState[r] = "ExecutingTools" /\ agentState'[r] # "ExecutingTools") =>
         LET batch == response[r].tools
             n == Len(batch)
             base == Len(messages[r])
         IN /\ Cardinality({j \in 1..Len(execLog'[r]) :
                              execLog'[r][j].id \in BatchIds(batch)}) = n
            /\ \A j \in 1..Len(execLog'[r]) :
                  execLog'[r][j].id \in BatchIds(batch) => ~execLog'[r][j].raised
            /\ agentState'[r] = "AwaitingModel"
            /\ Len(messages'[r]) = base + 2
            /\ SubSeq(messages'[r], 1, base) = messages[r]
            /\ messages'[r][base + 1].role = "assistant"
            /\ messages'[r][base + 1].blocks = batch
            /\ messages'[r][base + 2].role = "user"
            /\ Len(messages'[r][base + 2].results) = n
            /\ \A i \in 1..n :
                  /\ messages'[r][base + 2].results[i].tool_use_id = batch[i].id
                  /\ messages'[r][base + 2].results[i].is_error =
                       ~ExecutionOf(r, batch[i].id).success
            /\ Len(modelCalls'[r]) = Len(modelCalls[r]) + 1]_vars

\* C9: processAgentRequest never ends by raising, and a run in which a model
\* call failed is Failed and returns the fixed apology, not the error.
C9_FailureGivesApology ==
  \A r \in Reqs :
    /\ agentState[r] # "Raised"
    /\ failure[r] = PROVIDER_ERROR =>
         /\ agentState[r] = "Failed"
         /\ agentResult[r].content = APOLOGY
         /\ agentResult[r].content # failure[r]

\* a model call after a tool batch failed
C9_Witness ==
  \E r \in Reqs :
    failure[r] = PROVIDER_ERROR /\ iterations[r] >= 1 /\ agentState[r] = "Failed"

\* C10: in a run for a free caller every model call carries an empty tool
\* catalog and no request is sent to the tracker.
C10_FreeRunTouchesNoTracker ==
  \A r \in Reqs :
    perm[r].tier = "free" =>
      /\ \A i \in 1..Len(modelCalls[r]) : modelCalls[r][i].tools = {}
      /\ \A j \in 1..Len(execLog[r]) : execLog[r][j].ops = <<>>


\* ---- pipeline claims

\* the step is the rate limit check of request r
Admitting(r) == rl[r] = NoResult /\ rl'[r] # NoResult

\* C4: in every interleaving of the handlers of one caller's requests, a step
\* carries the rate limit check of at most one request, the check acts on the
\* bucket as the previous check left it (plus refill): it allows only when at
\* least one token is there and then lowers the count by exactly one, and no
\* other step of a handler changes the bucket; so while no time passes k
\* admitted requests leave the bucket exactly k tokens below capacity.
C4_AtomicAdmission ==
  [][\A u \in Callers :
       LET admitting == {r \in Reqs : Admitting(r) /\ req'[r].caller = u} IN
       /\ Cardinality(admitting) <= 1
       /\ \A r \in admitting :
            /\ Checked(u)
            /\ rl'[r] = lastResult'[u]
            /\ rl'[r].allowed <=> AvailableAtCheck(u) >= TokenUnit
            /\ rateLimits'[u].tokens =
                 AvailableAtCheck(u) - (IF rl'[r].allowed THEN TokenUnit ELSE 0)
       /\ (rateLimits'[u] # rateLimits[u]) => Checked(u)
       /\ (burst'[u].tier \in Tiers /\ burst'[u].last = burst'[u].start) =>
            /\ rateLimits'[u].tokens =
                 RATE_LIMITS[burst'[u].tier].maxTokens - burst'[u].allowed * TokenUnit
            /\ rateLimits'[u].tokens >= 0]_vars

\* two requests of one caller are in flight, both admitted
C4_Witness ==
  \E r, q \in Reqs :
    /\ r # q /\ req[r].caller = req[q].caller
    /\ rl[r].allowed /\ rl[q].allowed
    /\ pc[r] \notin {"idle", "done", "rejected"}
    /\ pc[q] \notin {"idle", "done", "rejected"}
    /\ burst[req[r].caller].allowed >= 2

PipelineOrder == <<"classify", "admit", "context", "orchestrate">>

IsPrefix(a, b) == Len(a) <= Len(b) /\ SubSeq(b, 1, Len(a)) = a

\* what C5 says of the state of request r
StagesInOrder(r) ==
  /\ IsPrefix(stages[r], PipelineOrder)
  /\ (rl[r] # NoResult) => perm[r].allowed
  /\ (agentState[r] # "Idle") => rl[r].allowed
  /\ (modelCalls[r] # <<>>) => agentState[r] # "Idle"
  /\ (perm[r] # NoPerm /\ ~perm[r].allowed) =>
       /\ stages[r] = <<"classify">>
       /\ rl[r] = NoResult
       /\ pc[r] \in {"replyDenied", "done", "rejected"}
  /\ (rl[r] # NoResult /\ ~rl[r].allowed) =>
       /\ stages[r] = <<"classify", "admit">>
       /\ ctx[r] = <<>> /\ agentState[r] = "Idle" /\ modelCalls[r] = <<>>
       /\ pc[r] \in {"replyLimited", "done", "rejected"}

\* C5: a request goes through classification, admission, context assembly and
\* orchestration in this order; a request denied by the permission check gets
\* no rate limit check and its step leaves every bucket as it was; a request
\* denied by the rate limit gets no context fetch and no model call.
C5_StagesInOrder ==
  [][\A r \in Reqs :
       /\ StagesInOrder(r)'
       /\ (perm[r] = NoPerm /\ perm'[r] # NoPerm /\ ~perm'[r].allowed) =>
            (rateLimits' = rateLimits /\ burst' = burst)]_vars

\* a request was denied by the rate limit and its handler has finished
C5_Witness ==
  \E r \in Reqs :
    /\ pc[r] = "done"
    /\ perm[r].allowed /\ rl[r] # NoResult /\ ~rl[r].allowed
    /\ replies[r] # <<>>

\* C6: a request that requires a tracker write, by a caller of the free tier,
\* is denied by the permission check on either path: no model call and no
\* tracker call is made for it, and the reply it gets is the denial.
C6_FreeWriteDenied ==
  \A r \in Reqs :
    (req[r] # NoReq /\ RequiresTrackerWrite(req[r])
       /\ getUserPermission(req[r].member, ROLE_PERMISSIONS).tier = "free") =>
      /\ perm[r] # NoPerm => ~perm[r].allowed
      /\ modelCalls[r] = <<>>
      /\ execLog[r] = <<>>
      /\ \A i \in 1..Len(replies[r]) : replies[r][i].kind = "denied"

\* --------------------------------------------------- tracker client: calls
\* nothing but the tracker client runs: no request, no bucket
InitRest ==
  /\ InitIdle
  /\ world = NoWorld
  /\ now = 0
  /\ rateLimits = [u \in Callers |-> NoBucket]
  /\ lastResult = [u \in Callers |-> NoResult]
  /\ burst = [u \in Callers |-> NoBurst]
  /\ lastCleaned = 0
  /\ unswept = NoUnswept
  /\ window = NoWindow
  /\ limits = [checks |-> [u \in Callers |-> 0], tierChange |-> FALSE]

ListResults(kind) ==
  { [success |-> TRUE, list |-> tracker[kind]], [success |-> FALSE, list |-> <<>>] }

\* one call of findLinearUser / findLinearLabel / findLinearProject, on the list
\* that getLinear* handed it
FindCall(kind, listResult, nameQuery) ==
  /\ call = NoCall
  /\ setup.spec = "resolve"
  /\ setup.kind = kind
  /\ call' = [op |-> "find", kind |-> kind, listResult |-> listResult, query |-> nameQuery]
  /\ ret' = CASE kind = "users" -> findLinearUser(listResult, nameQuery)
              [] kind = "labels" -> findLinearLabel(listResult, nameQuery)
              [] OTHER -> findLinearProject(listResult, nameQuery)
  /\ UNCHANGED <<rateVars, world, chatVars, handlerVars, agentVars, setup, tracker, cache, fetches, inv>>

FindUserCall == \E r \in ListResults("users"), q \in Queries : FindCall("users", r, q)
FindLabelCall == \E r \in ListResults("labels"), q \in Queries : FindCall("labels", r, q)
FindProjectCall == \E r \in ListResults("projects"), q \in Queries : FindCall("projects", r, q)

NextResolve == FindUserCall \/ FindLabelCall \/ FindProjectCall

\* every list of members, labels or projects, and one resolver call on it
InitResolve ==
  /\ InitRest
  /\ InitChatIdle
  /\ \E kind \in Kinds :
       /\ setup = [spec |-> "resolve", kind |-> kind]
       /\ \E l \in ListsOf(PoolOf(kind)) : tracker = [NoTracker EXCEPT ![kind] = l]
  /\ cache = EmptyCache
  /\ fetches = NoFetches
  /\ inv = [i \in Invs |-> NoInv]
  /\ call = NoCall
  /\ ret = NoRet

SpecResolve == InitResolve /\ [][NextResolve]_vars

\* -------------------------------------------- tracker client: operations
\* a call can be made in slot c
Callable(c) ==
  /\ c \in setup.slots
  /\ fetches.slot[c].pc = "idle" \/ (setup.repeat /\ fetches.slot[c].pc = "returned")

\* An operation runs in a slot: it is called, and unless it returns at once it
\* awaits the reply to the one query it sent. queries counts the queries the call
\* sent and found tells what the call found in the cache: none, fresh or expired.
Begin(c, op, kind, scope, args, found, request, early) ==
  /\ setup.spec \in {"client", "cache"}
  /\ Callable(c)
  /\ fetches' = [fetches EXCEPT !.slot[c] =
       [pc |-> IF request = NoRequest THEN "returned" ELSE "awaiting",
        op |-> op, kind |-> kind, scope |-> scope, args |-> args,
        found |-> found, request |-> request,
        queries |-> IF request = NoRequest THEN 0 ELSE 1,
        result |-> IF request = NoRequest THEN early ELSE NoRet]]
  /\ UNCHANGED <<rateVars, world, chatVars, handlerVars, agentVars, setup, tracker, cache, inv, call, ret>>

createLinearIssue(c, input) ==
  Begin(c, "create", "none", "t1", input, "none", createRequest(input), NoRet)
searchLinearIssues(c, input) ==
  Begin(c, "search", "none", "t1", input, "none", searchRequest(input), NoRet)
getLinearIssue(c, identifier) ==
  Begin(c, "get", "none", "t1", identifier, "none", getRequest(identifier),
        getRejected(identifier))
listLinearIssues(c, input) ==
  Begin(c, "list", "none", "t1", input, "none", listRequest(input), NoRet)
updateLinearIssue(c, issueId, input) ==
  Begin(c, "update", "none", "t1", input, "none", updateRequest(issueId, input), NoRet)
addLinearComment(c, issueId, body) ==
  Begin(c, "comment", "none", "t1", body, "none", commentRequest(issueId, body), NoRet)
getLinearStatuses(c) ==
  Begin(c, "statuses", "none", "t1", <<>>, "none", statusesRequest, NoRet)

\* an entry that getCached does not serve: there is none, or it is too old
Stale(entry) == IF entry = NoEntry THEN "none" ELSE "expired"

findLinear(kind, listResult, nameQuery) ==
  CASE kind = "users" -> findLinearUser(listResult, nameQuery)
    [] kind = "labels" -> findLinearLabel(listResult, nameQuery)
    [] OTHER -> findLinearProject(listResult, nameQuery)

\* getLinearUsers, getLinearLabels, getLinearProjects: the cached list, or a query
getLinearList(c, kind, scope) ==
  LET entry == cache[kind][scope] IN
  /\ kind \in setup.kinds
  /\ scope \in setup.scopes
  /\ IF Fresh(entry, now)
       THEN Begin(c, "getList", kind, scope, <<>>, "fresh", NoRequest, Ok(entry.data))
       ELSE Begin(c, "getList", kind, scope, <<>>, Stale(entry), listOfRequest(kind), NoRet)

\* findLinearUser, findLinearLabel, findLinearProject: getLinear*, then the match
findLinearCall(c, kind, scope, nameQuery) ==
  LET entry == cache[kind][scope] IN
  /\ setup.spec = "client"
  /\ kind \in setup.kinds
  /\ scope \in setup.scopes
  /\ IF Fresh(entry, now)
       THEN Begin(c, "find", kind, scope, nameQuery, "fresh", NoRequest,
                  findLinear(kind, [success |-> TRUE, list |-> entry.data], nameQuery))
       ELSE Begin(c, "find", kind, scope, nameQuery, Stale(entry), listOfRequest(kind), NoRet)

\* the key of the configured team: the prefix of the identifiers of its issues
TeamKey == <<"C">>

\* the issue of the configured team that has the number
TheIssue(number) ==
  [id |-> "issue-uuid", key |-> TeamKey, number |-> number, labels |-> tracker.issueLabels]

\* what the tracker, or the network, can answer to a request
RepliesTo(request) ==
  { r \in FailingReplies : r.kind \in setup.failures } \cup
  CASE request.op = "issueCreate" ->
         { Reply([success |-> b, issue |-> "COD-7"]) : b \in BOOLEAN }
    [] request.op = "issueUpdate" ->
         { Reply([success |-> b, issue |-> "COD-7"]) : b \in BOOLEAN }
    [] request.op = "commentCreate" ->
         { Reply([success |-> b, comment |-> "comment-1"]) : b \in BOOLEAN }
    [] request.op = "getIssue" ->
         { Reply([nodes |-> <<>>]), Reply([nodes |-> <<TheIssue(request.number)>>]) }
    [] request.op = "statuses" -> { Reply([nodes |-> tracker.statuses]) }
    [] request.op \in Kinds -> { Reply([nodes |-> l]) : l \in setup.lists }
    [] OTHER -> { Reply([nodes |-> <<>>]) }

\* the reply arrives: the operation completes, a list is cached, a resolver matches
Responds(c, reply) ==
  LET s == fetches.slot[c]
      done == Completed(s.request.op, reply)
      cached == s.request.op \in Kinds /\ done.success
  IN
  /\ setup.spec \in {"client", "cache"}
  /\ s.pc = "awaiting"
  /\ reply \in RepliesTo(s.request)
  /\ cache' = IF cached THEN setCache(cache, s.kind, s.scope, done.value, now) ELSE cache
  /\ fetches' = [fetches EXCEPT
       !.slot[c] = [s EXCEPT !.pc = "returned",
                             !.result = IF s.op = "find"
                                THEN findLinear(s.kind, [success |-> done.success,
                                                         list |-> done.value], s.args)
                                ELSE done],
       !.last = IF cached THEN setCache(@, s.kind, s.scope, done.value, now) ELSE @]
  /\ UNCHANGED <<rateVars, world, chatVars, handlerVars, agentVars, setup, tracker, inv, call, ret>>

CreateInputs == [title : {"t"}, priority : PriorityTokens \cup {Absent, "critical"}]
SearchInputs == [status : StatusTokens \cup {Absent, "blocked", "toString"}, limit : {NoNumber, 3}]
UpdateInputs ==
  [title : {Absent, "t"}, priority : {Absent, "high", "critical"}, stateId : {Absent, "S1"},
   assigneeId : {Absent, "U1"}, labelIds : {NoIds, Ids({"L1"})}, projectId : {Absent, "P1"}]

NextClient ==
  \E c \in Slots :
    \/ Callable(c) /\ \E input \in CreateInputs : createLinearIssue(c, input)
    \/ Callable(c) /\ \E input \in SearchInputs : searchLinearIssues(c, input)
    \/ Callable(c) /\ \E identifier \in Identifiers : getLinearIssue(c, identifier)
    \/ Callable(c) /\ \E input \in SearchInputs : listLinearIssues(c, input)
    \/ Callable(c) /\ \E input \in UpdateInputs : updateLinearIssue(c, "issue-uuid", input)
    \/ addLinearComment(c, "issue-uuid", "b")
    \/ getLinearStatuses(c)
    \/ \E kind \in Kinds, scope \in Scopes : getLinearList(c, kind, scope)
    \/ Callable(c) /\ \E kind \in Kinds, scope \in Scopes, q \in Queries :
                        findLinearCall(c, kind, scope, q)
    \/ \E reply \in RepliesTo(fetches.slot[c].request) : Responds(c, reply)

WorkflowStates ==
  << [id |-> "S1", name |-> "Backlog"], [id |-> "S2", name |-> "In Progress"],
     [id |-> "S3", name |-> "Done"] >>

SomeList(pool) == CHOOSE l \in ListsOf(pool) : Len(l) = MaxEntities

\* one call of one operation of the client, with every argument and every reply
InitClient ==
  /\ InitRest
  /\ InitChatIdle
  /\ tracker = [users |-> SomeList(UserPool), labels |-> SomeList(LabelPool),
                projects |-> SomeList(ProjectPool), statuses |-> WorkflowStates,
                issueLabels |-> {"L1"}]
  /\ \E kinds \in { {k} : k \in Kinds } :
       setup = [spec |-> "client", slots |-> {"c1"}, scopes |-> {"t1"}, kinds |-> kinds,
                lists |-> UNION { { tracker[k] } : k \in kinds }, repeat |-> FALSE,
                clock |-> FALSE,
                failures |-> {"transport", "nonOK", "errors", "noData", "okNull"}]
  /\ cache = EmptyCache
  /\ fetches = NoFetches
  /\ inv = [i \in Invs |-> NoInv]
  /\ call = NoCall
  /\ ret = NoRet

SpecClient == InitClient /\ [][NextClient]_vars

\* --------------------------------------------------- tracker client: cache
\* instants on both sides of the TTL, for an entry stored at 0 or at 1
CacheInstants == {0, 1, CACHE_TTL_MS, CACHE_TTL_MS + 1}

CacheTick ==
  /\ setup.spec = "cache"
  /\ setup.clock
  /\ \E t \in CacheInstants : t > now /\ now' = t
  /\ UNCHANGED <<rateLimits, lastResult, burst, lastCleaned, limits, unswept, window, world, chatVars,
                 handlerVars,
                 agentVars, linearVars>>

\* the lists a fetch can bring back: the tracker's list changes between fetches
FetchedLists(kind) == { <<e>> : e \in { x \in PoolOf(kind) : x.id \in {"U1", "U2", "L1", "L2", "P1", "P2"} } }

NextCache ==
  \/ CacheTick
  \/ \E c \in Slots, kind \in Kinds, scope \in Scopes : getLinearList(c, kind, scope)
  \/ \E c \in Slots : \E reply \in RepliesTo(fetches.slot[c].request) : Responds(c, reply)

\* list calls for one kind of entity, from two callers, for two scopes, over time
InitCache ==
  /\ InitRest
  /\ InitChatIdle
  /\ tracker = NoTracker
  /\ \E kind \in Kinds :
       setup = [spec |-> "cache", slots |-> Slots, scopes |-> Scopes, kinds |-> {kind},
                lists |-> FetchedLists(kind), repeat |-> TRUE, clock |-> TRUE,
                failures |-> {"errors"}]
  /\ cache = EmptyCache
  /\ fetches = NoFetches
  /\ inv = [i \in Invs |-> NoInv]
  /\ call = NoCall
  /\ ret = NoRet

SpecCache == InitCache /\ [][NextCache]_vars

\* ------------------------------------------------- update_linear_issue tool
MaxLabels == 2

\* String.prototype.toLowerCase on the names of workflow states and on tokens
lowerName(name) ==
  CASE name = "Backlog" -> "backlog"
    [] name = "Todo" -> "todo"
    [] name = "In Progress" -> "in progress"
    [] name = "Done" -> "done"
    [] name = "Canceled" -> "canceled"
    [] OTHER -> name

\* a tool argument that passes if (x): a non-empty string, or a value such as 42
Truthy(q) == ~q.str \/ q.chars # <<>>

\* lines 623-645, after getLinearStatuses: the state id, an error, or a TypeError
\* when the lookup in statusMap gave a member of Object.prototype
resolveStatus(status, statusesResult) ==
  IF ~statusesResult.success THEN [raised |-> FALSE, stateId |-> Absent, errors |-> <<>>]
  ELSE LET targetStatus == Coalesce(statusMap(status), status)
           hit == FirstIndex(statusesResult.value, 1,
                    { k \in 1..Len(statusesResult.value) :
                        lowerName(statusesResult.value[k].name) = lowerName(targetStatus) })
       IN  IF Len(statusesResult.value) > 0 /\ targetStatus = Inherited
             THEN [raised |-> TRUE, stateId |-> Absent, errors |-> <<>>]
           ELSE IF hit > 0
             THEN [raised |-> FALSE, stateId |-> statusesResult.value[hit].id, errors |-> <<>>]
           ELSE [raised |-> FALSE, stateId |-> Absent,
                 errors |-> << [field |-> "status", kind |-> "notFound", names |-> <<>>] >>]

\* the label ids the union starts from, taken to be none
existingLabelIdsEmpty(issue) == {}

\* lines 662-664: the label ids the union starts from
existingLabelIds(issue) == issue.labels

\* the error pushed for a resolver result that is no success
ResolutionError(field, found) ==
  [field |-> field, kind |-> found.error.kind, names |-> found.error.names]

Stages == <<"getIssue", "status", "assignee", "labels", "project">>

Requested(input, stage) ==
  CASE stage = "status" -> input.status # Absent
    [] stage = "assignee" -> Truthy(input.assignee)
    [] stage = "labels" -> Len(input.labels) > 0
    [] stage = "project" -> Truthy(input.project)
    [] OTHER -> FALSE

\* the code runs on from the end of stage k to the next await, or to its return
Continue(r, k) ==
  LET later == { j \in (k + 1)..Len(Stages) : Requested(r.input, Stages[j]) } IN
  IF later # {}
    THEN LET next == Stages[CHOOSE j \in later : \A m \in later : j <= m] IN
         IF next = "labels"
           THEN [r EXCEPT !.pc = next, !.labelIds = Ids(existingLabelIds(r.read))]
           ELSE [r EXCEPT !.pc = next]
  ELSE IF r.errors # <<>>
    THEN [r EXCEPT !.pc = "done",
                   !.result = [success |-> FALSE, kind |-> "resolution", errors |-> r.errors]]
  ELSE [r EXCEPT !.pc = "submit",
                 !.sent = updateRequest(r.read.id,
                            [title |-> r.input.title, priority |-> r.input.priority,
                             stateId |-> r.stateId, assigneeId |-> r.assigneeId,
                             labelIds |-> r.labelIds, projectId |-> r.projectId])]

Step(i, next) ==
  /\ inv' = [inv EXCEPT ![i] = next]
  /\ UNCHANGED <<rateVars, world, chatVars, handlerVars, agentVars, setup, tracker, cache, fetches,
                 call, ret>>

\* executeTool is called with the tool input and awaits getLinearIssue
StartUpdate(i, input) ==
  /\ setup.spec = "update"
  /\ i \in setup.invs
  /\ inv[i].pc = "idle"
  /\ Step(i, [NoInv EXCEPT !.pc = "getIssue", !.input = input])

\* getLinearIssue returned: the issue with its labels, or no issue
IssueRead(i, reply) ==
  LET r == inv[i]
      request == getRequest(r.input.identifier)
      got == IF request = NoRequest THEN getRejected(r.input.identifier)
             ELSE Completed("getIssue", reply)
  IN
  /\ r.pc = "getIssue"
  /\ reply \in RepliesTo(request)
  /\ IF got.success
       THEN Step(i, Continue([r EXCEPT !.read = got.value], 1))
       ELSE Step(i, [r EXCEPT !.pc = "done",
                       !.result = [success |-> FALSE, kind |-> "issueNotFound",
                                   errors |-> <<>>]])

\* getLinearStatuses returned
StatusesRead(i, reply) ==
  LET r == inv[i]
      resolved == resolveStatus(r.input.status, Completed("statuses", reply))
  IN
  /\ r.pc = "status"
  /\ reply \in RepliesTo(statusesRequest)
  /\ IF resolved.raised
       THEN Step(i, [r EXCEPT !.pc = "raised"])
       ELSE Step(i, Continue([r EXCEPT !.stateId = resolved.stateId,
                                       !.errors = @ \o resolved.errors], 2))

\* findLinearUser returned, or raised
AssigneeResolved(i, listResult) ==
  LET r == inv[i]
      found == findLinearUser(listResult, r.input.assignee)
      seen == [r EXCEPT !.outcomes = Append(@, [field |-> "assignee", found |-> found])]
  IN
  /\ r.pc = "assignee"
  /\ listResult \in ListResults("users")
  /\ IF found.raised THEN Step(i, [seen EXCEPT !.pc = "raised"])
     ELSE IF found.success
       THEN Step(i, Continue([seen EXCEPT !.assigneeId = found.entity.id], 3))
     ELSE Step(i, Continue([seen EXCEPT !.errors =
                               Append(@, ResolutionError("assignee", found))], 3))

\* findLinearLabel returned, or raised, for the next label of the request; after
\* the last label the label errors are pushed
LabelResolved(i, listResult) ==
  LET r == inv[i]
      n == r.labelIdx + 1
      found == findLinearLabel(listResult, r.input.labels[n])
      seen == [r EXCEPT !.outcomes = Append(@, [field |-> "label", found |-> found]),
                        !.labelIdx = n]
      next == IF found.success
                THEN [seen EXCEPT !.labelIds = Ids(@.ids \cup {found.entity.id})]
                ELSE [seen EXCEPT !.errors = Append(@, ResolutionError("label", found))]
  IN
  /\ r.pc = "labels"
  /\ listResult \in ListResults("labels")
  /\ IF found.raised THEN Step(i, [seen EXCEPT !.pc = "raised"])
     ELSE IF n < Len(r.input.labels) THEN Step(i, next)
     ELSE Step(i, Continue(next, 4))

\* findLinearProject returned, or raised
ProjectResolved(i, listResult) ==
  LET r == inv[i]
      found == findLinearProject(listResult, r.input.project)
      seen == [r EXCEPT !.outcomes = Append(@, [field |-> "project", found |-> found])]
  IN
  /\ r.pc = "project"
  /\ listResult \in ListResults("projects")
  /\ IF found.raised THEN Step(i, [seen EXCEPT !.pc = "raised"])
     ELSE IF found.success
       THEN Step(i, Continue([seen EXCEPT !.projectId = found.entity.id], 5))
     ELSE Step(i, Continue([seen EXCEPT !.errors =
                               Append(@, ResolutionError("project", found))], 5))

\* lines 713-721: the fields the result reports as changed, those the tool input
\* holds with a truthy value (a list of labels is taken to be given when it is
\* not empty; no input explored has a description)
changes(input) ==
  { f \in {"status", "priority", "assignee", "labels", "project", "title"} :
      CASE f = "status" -> input.status # Absent
        [] f = "priority" -> input.priority # Absent
        [] f = "assignee" -> Truthy(input.assignee)
        [] f = "labels" -> Len(input.labels) > 0
        [] f = "project" -> Truthy(input.project)
        [] OTHER -> input.title # Absent }

\* the tracker answers the update mutation: labelIds, when given, become the
\* labels of the issue; updateLinearIssue returns and so does the tool
Submitted(i, reply) ==
  LET r == inv[i]
      done == Completed("issueUpdate", reply)
  IN
  /\ r.pc = "submit"
  /\ reply \in RepliesTo(r.sent)
  /\ inv' = [inv EXCEPT ![i] =
       [r EXCEPT !.pc = "done",
                 !.result = [success |-> done.success,
                             kind |-> IF done.success THEN "updated" ELSE "updateFailed",
                             errors |-> <<>>,
                             changes |-> IF done.success THEN changes(r.input) ELSE {}]]]
  /\ tracker' = IF done.success /\ r.sent.labelIds.given
                  THEN [tracker EXCEPT !.issueLabels = r.sent.labelIds.ids]
                  ELSE tracker
  /\ UNCHANGED <<rateVars, world, chatVars, handlerVars, agentVars, setup, cache, fetches, call, ret>>

\* the team of the tracker, with members and labels that collide by substring
TheTeam ==
  [users |-> << [id |-> "U1", name |-> <<"A", "b">>, displayName |-> Null,
                 email |-> <<"a", "@">>],
                [id |-> "U2", name |-> <<"a", "b", "b">>, displayName |-> <<"B">>,
                 email |-> <<"b", "@">>] >>,
   labels |-> << [id |-> "L1", name |-> <<"A", "b">>], [id |-> "L2", name |-> <<"a", "b", "b">>],
                 [id |-> "L3", name |-> <<"b">>] >>,
   projects |-> << [id |-> "P1", name |-> <<"A", "b">>], [id |-> "P4", name |-> <<"b", "a">>] >>,
   statuses |-> WorkflowStates,
   issueLabels |-> {}]

NameQueries == { Str(<<>>), Str(<<"a">>), Str(<<"a", "b">>), Str(<<"z">>), NotAString }
LabelQueries == { Str(<<"a">>), Str(<<"b">>), Str(<<"b", "b">>), NotAString }
LabelRequests ==
  UNION { [1..n -> LabelQueries] : n \in 0..MaxLabels }

NoInput ==
  [identifier |-> Str(<<>>), status |-> Absent, priority |-> Absent, assignee |-> Str(<<>>),
   labels |-> <<>>, project |-> Str(<<>>), title |-> Absent]
COD7 == Str(<<"C", "-", "7">>)

\* the tool inputs explored for one invocation
UpdateToolInputs ==
  { [NoInput EXCEPT !.identifier = Str(<<"C", "7">>)] } \cup
  [identifier : {COD7}, status : {Absent, "done", "blocked", "toString"},
   priority : {Absent}, assignee : NameQueries, labels : LabelRequests,
   project : { Str(<<>>), Str(<<"z">>) }, title : {Absent}]

\* one invocation with every input, on an issue with or without labels
OneUpdate(labels) ==
  [spec |-> "update", invs |-> {"i1"},
   before |-> labels, lists |-> {}, failures |-> {"errors"}]

\* two invocations that each add one label to the same issue
TwoUpdates(labels) ==
  [spec |-> "update", invs |-> Invs,
   before |-> labels, lists |-> {}, failures |-> {"errors"}]

\* the inputs of an invocation: every input when it runs alone, one label to add
\* when two run together
InputsOf(i) ==
  IF i \notin setup.invs THEN {}
  ELSE IF setup.invs = {"i1"} THEN UpdateToolInputs
  ELSE { [NoInput EXCEPT !.identifier = COD7,
                         !.labels = IF i = "i1" THEN << Str(<<"b">>) >>
                                                ELSE << Str(<<"b", "b">>) >>] }

NextUpdate ==
  \E i \in Invs :
    \/ inv[i].pc = "idle" /\ \E input \in InputsOf(i) : StartUpdate(i, input)
    \/ \E reply \in RepliesTo(getRequest(inv[i].input.identifier)) : IssueRead(i, reply)
    \/ \E reply \in RepliesTo(statusesRequest) : StatusesRead(i, reply)
    \/ \E l \in ListResults("users") : AssigneeResolved(i, l)
    \/ \E l \in ListResults("labels") : LabelResolved(i, l)
    \/ \E l \in ListResults("projects") : ProjectResolved(i, l)
    \/ \E reply \in RepliesTo(inv[i].sent) : Submitted(i, reply)

InitUpdate ==
  /\ InitRest
  /\ InitChatIdle
  /\ \E labels \in { {}, {"L1", "L3"} } :
       /\ setup \in { OneUpdate(labels), TwoUpdates(labels) }
       /\ tracker = [TheTeam EXCEPT !.issueLabels = labels]
  /\ cache = EmptyCache
  /\ fetches = NoFetches
  /\ inv = [i \in Invs |-> NoInv]
  /\ call = NoCall
  /\ ret = NoRet

SpecUpdate == InitUpdate /\ [][NextUpdate]_vars

\* ---------------------------------------------------------- classification
MaxRoles == 3

RoleIds == {"R1", "R2", "R3"}

\* a role map as setRolePermission can build it: each role id once, any tier
PermissionFor(roleId, tier) ==
  [roleId |-> roleId, tier |-> tier,
   features |-> ROLE_PERMISSIONS[CHOOSE k \in 1..Len(ROLE_PERMISSIONS) :
                                   ROLE_PERMISSIONS[k].tier = tier].features]
RoleMaps ==
  UNION { { m \in [1..n -> { PermissionFor(id, tier) : id \in RoleIds, tier \in Tiers }] :
              \A i, j \in 1..n : m[i].roleId = m[j].roleId => i = j } :
          n \in 0..MaxRoles }
Classified == { NoMember } \cup { [guild |-> TRUE, roles |-> rs] : rs \in SUBSET (RoleIds \cup {"OTHER_ROLE_ID"}) }

\* types.ts lines 137-152
getUserTier(member, roleTiers) ==
  IF ~member.guild THEN "free"
  ELSE IF FirstByPriority(roleTiers, 1, member.roles) # 0
    THEN roleTiers[FirstByPriority(roleTiers, 1, member.roles)].tier
  ELSE "free"

\* lines 153-155: Map.set keeps the position of a key it already holds and
\* appends a new key
RECURSIVE IndexOfRole(_, _, _)
IndexOfRole(perms, i, roleId) ==
  IF i > Len(perms) THEN 0
  ELSE IF perms[i].roleId = roleId THEN i
  ELSE IndexOfRole(perms, i + 1, roleId)

MapSet(perms, roleId, permission) ==
  IF IndexOfRole(perms, 1, roleId) # 0
    THEN [perms EXCEPT ![IndexOfRole(perms, 1, roleId)] = permission]
    ELSE Append(perms, permission)

\* lines 160-162: Map.delete
MapDelete(perms, roleId) ==
  SelectSeq(perms, LAMBDA p : p.roleId # roleId)

MaxMapChanges == 2
MaxClassifications == 2

\* the callers a run of repeated classifications uses
Reclassified ==
  { NoMember,
    [guild |-> TRUE, roles |-> {"R1"}],
    [guild |-> TRUE, roles |-> {"R2", "R3"}],
    [guild |-> TRUE, roles |-> {"R1", "R3", "OTHER_ROLE_ID"}] }

NoHistory == <<>>
HistoryOf(r) == IF r = NoRet THEN NoHistory ELSE r.history

\* what a classification leaves behind: the result, and the ghost record of
\* every classification so far with the role map it ran under
Classification(permission, tier) ==
  /\ setup.spec \in {"classify", "reclassify"}
  /\ call.op = "classify"
  /\ Len(HistoryOf(ret)) < (IF setup.spec = "reclassify" THEN MaxClassifications ELSE 1)
  /\ ret' = [raised |-> FALSE, success |-> TRUE,
             permission |-> permission,
             tier |-> tier,
             history |-> Append(HistoryOf(ret),
                                [perms |-> call.perms, permission |-> permission,
                                 tier |-> tier])]
  /\ UNCHANGED <<rateVars, world, chatVars, handlerVars, agentVars, setup, tracker, cache, fetches,
                 inv, call>>

\* a classifier that grants the mapped permission on the first call only
ClassifyCallerOnce ==
  IF ret = NoRet
    THEN Classification(getUserPermission(call.member, call.perms),
                        getUserTier(call.member, call.perms))
    ELSE Classification(DEFAULT_PERMISSION, "free")

\* one classification of a caller under a role map
ClassifyCaller ==
  Classification(getUserPermission(call.member, call.perms),
                 getUserTier(call.member, call.perms))

\* permissions.ts lines 153-155
setRolePermission ==
  /\ setup.spec = "reclassify"
  /\ call.changes < MaxMapChanges
  /\ \E roleId \in RoleIds, tier \in Tiers :
       call' = [call EXCEPT !.perms = MapSet(@, roleId, PermissionFor(roleId, tier)),
                            !.changes = @ + 1]
  /\ UNCHANGED <<rateVars, world, chatVars, handlerVars, agentVars, setup, tracker, cache, fetches,
                 inv, ret>>

\* permissions.ts lines 160-162
removeRolePermission ==
  /\ setup.spec = "reclassify"
  /\ call.changes < MaxMapChanges
  /\ \E roleId \in RoleIds :
       /\ IndexOfRole(call.perms, 1, roleId) # 0
       /\ call' = [call EXCEPT !.perms = MapDelete(@, roleId), !.changes = @ + 1]
  /\ UNCHANGED <<rateVars, world, chatVars, handlerVars, agentVars, setup, tracker, cache, fetches,
                 inv, ret>>

NextClassify == ClassifyCaller

NextReclassify ==
  \/ ClassifyCaller
  \/ setRolePermission
  \/ removeRolePermission

\* every role map of up to MaxRoles roles and every caller
InitClassify ==
  /\ InitRest
  /\ InitChatIdle
  /\ setup = [spec |-> "classify"]
  /\ tracker = NoTracker
  /\ cache = EmptyCache
  /\ fetches = NoFetches
  /\ inv = [i \in Invs |-> NoInv]
  /\ \E member \in Classified, perms \in RoleMaps :
       call = [op |-> "classify", member |-> member, perms |-> perms]
  /\ ret = NoRet

\* the role map as the module builds it (one role per tier) or an empty one,
\* changed while one caller is classified again and again
InitReclassify ==
  /\ InitRest
  /\ InitChatIdle
  /\ setup = [spec |-> "reclassify"]
  /\ tracker = NoTracker
  /\ cache = EmptyCache
  /\ fetches = NoFetches
  /\ inv = [i \in Invs |-> NoInv]
  /\ \E member \in Reclassified,
        perms \in { <<>>, << PermissionFor("R1", "admin"), PermissionFor("R2", "premium"),
                            PermissionFor("R3", "free") >> } :
       call = [op |-> "classify", member |-> member, perms |-> perms, changes |-> 0]
  /\ ret = NoRet

SpecClassify == InitClassify /\ [][NextClassify]_vars
SpecReclassify == InitReclassify /\ [][NextReclassify]_vars

\* ---------------------------------------------------------- context collector
\* services/context-collector.ts (line numbers are those of the file unless the
\* hydrating revision is named), types.ts (messageToContext)
MaxMessages == 7
MaxLimit == 3

\* line 43: the number of parent turns asked for
PARENT_LIMIT == 5
\* line 85: the bound of the reply walk
MAX_DEPTH == 5

\* Date.toISOString: text of fixed width, here two digits after a prefix
DigitChar == <<"0", "1", "2", "3", "4", "5", "6", "7", "8", "9">>
Times == 0..39
toISOString(t) == "T" \o DigitChar[(t \div 10) + 1] \o DigitChar[(t % 10) + 1]

\* types.ts lines 158-182, for messages without embeds and with trimmed content
messageToContext(message) ==
  [role |-> IF message.bot THEN "assistant" ELSE "user",
   content |-> message.content,
   author |-> message.author,
   timestamp |-> toISOString(message.createdAt)]

\* channel.messages.fetch({ limit }): the newest `limit` messages, newest first
fetchRecent(history, limit) ==
  [k \in 1..Min(limit, Len(history)) |-> history[Len(history) - k + 1]]

reverse(s) == [k \in 1..Len(s) |-> s[Len(s) - k + 1]]

\* lines 17-22: the body of the try, before the reversal
Converted(history, limit) ==
  [k \in 1..Len(fetchRecent(history, limit)) |->
     messageToContext(fetchRecent(history, limit)[k])]

NoTurns == <<>>
Returned(turns) == [raised |-> FALSE, turns |-> turns]
Thrown == [raised |-> TRUE, turns |-> NoTurns]

\* collectContext that hands the turns on in the order of the fetch
collectedNewestFirst(outcome, history, limit) ==
  IF outcome = "ok" THEN Returned(Converted(history, limit)) ELSE Returned(NoTurns)

\* collectContext without its catch
collectedRethrows(outcome, history, limit) ==
  IF outcome = "ok" THEN Returned(reverse(Converted(history, limit))) ELSE Thrown

\* lines 11-29: what collectContext returns for an outcome of its fetch
collected(outcome, history, limit) ==
  IF outcome = "ok" THEN Returned(reverse(Converted(history, limit))) ELSE Returned(NoTurns)

\* the thread turns put before the parent turns
threadContextThreadFirst(parentMessages, turns) == turns \o parentMessages

\* line 44
threadContext(parentMessages, turns) == parentMessages \o turns

\* a walk that goes one hop further
walkContinuesOneMore(current, depth) == current.reference.exists /\ depth <= MAX_DEPTH

\* line 85: the loop condition of the reply walk
walkContinues(current, depth) == current.reference.exists /\ depth < MAX_DEPTH

\* collectReplyContext is in the sources in two revisions, which share the
\* walk's bound and differ in what they do with a partial message, with a
\* reference that names no message, and in the key of the deduplication:
\*   "services": services/context-collector.ts lines 75-107
\*   "hydrating": the revision with hydrateIfPartial, lines 143-196 of its copy
Revisions == {"services", "hydrating"}

\* line 103: the timestamps of the chain
seenTimestamps(replyChain) == { replyChain[i].timestamp : i \in 1..Len(replyChain) }

\* line 191 of the hydrating revision
key(m) == m.author \o ":" \o m.timestamp

\* the channel turns that the merge keeps: line 104, or lines 189-193 of the
\* hydrating revision
deduped(revision, replyChain, channelContext) ==
  IF revision = "services"
    THEN SelectSeq(channelContext, LAMBDA m : m.timestamp \notin seenTimestamps(replyChain))
    ELSE SelectSeq(channelContext,
                   LAMBDA m : ~\E i \in 1..Len(replyChain) : key(replyChain[i]) = key(m))

\* line 106
merged(revision, replyChain, channelContext) ==
  replyChain \o deduped(revision, replyChain, channelContext)

\* --- the transport's side
NoReference == [exists |-> FALSE, messageId |-> 0]
Reference(id) == [exists |-> TRUE, messageId |-> id]

AuthorPatterns == {"one", "two", "colon"}
AuthorOf(pattern, i) ==
  CASE pattern = "one" -> "a"
    [] pattern = "two" -> IF i % 2 = 1 THEN "a" ELSE "b"
    [] OTHER -> IF i % 2 = 1 THEN "a" ELSE "a:T11"

TimePatterns == {"distinct", "equal", "pairs"}
TimeOf(pattern, i) ==
  CASE pattern = "distinct" -> 10 + i
    [] pattern = "equal" -> 11
    [] OTHER -> 10 + ((i + 1) \div 2)

\* replies: of every message to the previous one, of the newest message alone
\* to the previous one, to the one before the previous one, in a cycle through
\* the newest message, to itself, or with a reference that names no message
ReferencePatterns == {"none", "previous", "newest", "second", "cycle", "self", "channelOnly"}
ReferenceOf(pattern, i, n) ==
  CASE pattern = "previous" -> IF i > 1 THEN Reference(i - 1) ELSE NoReference
    [] pattern = "newest" -> IF i = n /\ i > 1 THEN Reference(i - 1) ELSE NoReference
    [] pattern = "second" -> IF i > 2 THEN Reference(i - 2) ELSE NoReference
    [] pattern = "cycle" -> IF i > 1 THEN Reference(i - 1) ELSE Reference(n)
    [] pattern = "self" -> Reference(i)
    [] pattern = "channelOnly" -> [exists |-> TRUE, messageId |-> 0]
    [] OTHER -> NoReference

PartialPatterns == {"none", "odd"}

\* the decimal numeral of i < 100
Numeral(i) ==
  IF i < 10 THEN DigitChar[i + 1] ELSE DigitChar[(i \div 10) + 1] \o DigitChar[(i % 10) + 1]

ChannelHistory(n, authors, times, references, partials) ==
  [i \in 1..n |->
     [id |-> i,
      author |-> AuthorOf(authors, i),
      bot |-> AuthorOf(authors, i) = "b",
      content |-> "t" \o Numeral(i),
      createdAt |-> TimeOf(times, i),
      reference |-> ReferenceOf(references, i, n),
      partial |-> partials = "odd" /\ i % 2 = 1]]

\* the parent's messages: all before the thread's, all after, or in between
ParentPatterns == {"before", "after", "between"}
ParentHistory(n, pattern) ==
  [i \in 1..n |->
     [id |-> 100 + i,
      author |-> IF i % 2 = 1 THEN "b" ELSE "a",
      bot |-> i % 2 = 1,
      content |-> "p" \o DigitChar[i + 1],
      createdAt |-> CASE pattern = "before" -> i
                      [] pattern = "after" -> 20 + i
                      [] OTHER -> 10 + i,
      reference |-> NoReference,
      partial |-> FALSE]]

ParentLengths == {0, 2, PARENT_LIMIT + 1}

Operations == {"collectContext", "collectThreadContext", "collectReplyContext"}

Chats ==
  { [op |-> "collectContext", revision |-> "services", channel |-> ChannelHistory(n, a, t, "none", "none"),
     parent |-> <<>>, hasParent |-> FALSE] :
      n \in 0..MaxMessages, a \in AuthorPatterns, t \in TimePatterns }
  \cup
  { [op |-> "collectThreadContext", revision |-> "services", channel |-> ChannelHistory(n, "two", t, "none", "none"),
     parent |-> ParentHistory(pn, pp), hasParent |-> has] :
      n \in 0..MaxMessages, t \in TimePatterns,
      pn \in ParentLengths, pp \in ParentPatterns, has \in BOOLEAN }
  \cup
  { [op |-> "collectReplyContext", revision |-> v, channel |-> ChannelHistory(n, a, t, r, p),
     parent |-> <<>>, hasParent |-> FALSE] :
      v \in Revisions, n \in 1..MaxMessages, a \in AuthorPatterns, t \in TimePatterns,
      r \in ReferencePatterns, p \in PartialPatterns }

Outcomes == {"ok", "fail"}

\* --- the calls, one step for each await
\* the collector is called; collectReplyContext is called for the newest message
Called(limit) ==
  [pc |-> IF chat.op = "collectReplyContext" THEN "walk" ELSE "channel",
   op |-> chat.op,
   limit |-> limit,
   replyChain |-> NoTurns,
   current |-> IF chat.op = "collectReplyContext"
                 THEN chat.channel[Len(chat.channel)].id ELSE 0,
   depth |-> 0,
   hops |-> 0,
   walked |-> <<>>,
   stopped |-> "none",
   messages |-> NoTurns,
   parentMessages |-> NoTurns,
   fetched |-> [channel |-> "none", parent |-> "none"],
   raised |-> FALSE,
   result |-> NoTurns]

CollectCall ==
  /\ chat.op \in Operations
  /\ collect.pc = "idle"
  /\ \E limit \in 1..MaxLimit : collect' = Called(limit)
  /\ UNCHANGED <<rateVars, world, handlerVars, agentVars, linearVars, chat>>

\* what one turn of the loop does with the message the current one replies to:
\* "noId": left before any fetch (line 168 of the hydrating revision);
\* "failed": the catch of the loop was taken; "reached": the turn was collected.
\* The services revision fetches also for a missing id, which gives no message,
\* and converts a partial message, whose author is null, which throws;
\* the hydrating revision fetches a partial message again, which may fail.
hop(revision, messageId, known, partial, outcome, hydration) ==
  IF revision = "hydrating" /\ messageId = 0 THEN "noId"
  ELSE IF outcome = "fail" \/ ~known THEN "failed"
  ELSE IF partial /\ (revision = "services" \/ hydration = "fail") THEN "failed"
  ELSE "reached"

\* lines 85-94: one turn of the loop
WalkHop ==
  /\ collect.pc = "walk"
  /\ walkContinues(chat.channel[collect.current], collect.depth)
  /\ LET messageId == chat.channel[collect.current].reference.messageId
         known == messageId \in 1..Len(chat.channel) IN
     \E outcome \in Outcomes, hydration \in Outcomes :
       LET end == hop(chat.revision, messageId, known,
                      known /\ chat.channel[messageId].partial, outcome, hydration) IN
       collect' =
         CASE end = "noId" -> [collect EXCEPT !.pc = "channel", !.stopped = "noId"]
           [] end = "failed" -> [collect EXCEPT !.pc = "channel", !.stopped = "failed",
                                                !.hops = @ + 1]
           [] OTHER -> [collect EXCEPT
                          !.replyChain = <<messageToContext(chat.channel[messageId])>> \o @,
                          !.walked = Append(@, messageId),
                          !.current = messageId,
                          !.depth = @ + 1,
                          !.hops = @ + 1]
  /\ UNCHANGED <<rateVars, world, handlerVars, agentVars, linearVars, chat>>

\* line 85: the loop condition is false
WalkEnds ==
  /\ collect.pc = "walk"
  /\ ~walkContinues(chat.channel[collect.current], collect.depth)
  /\ collect' = [collect EXCEPT !.pc = "channel",
                                !.stopped = IF collect.depth < MAX_DEPTH THEN "root" ELSE "depth"]
  /\ UNCHANGED <<rateVars, world, handlerVars, agentVars, linearVars, chat>>

\* a call that an error leaves: nothing is returned
Raises == [collect EXCEPT !.pc = "done", !.raised = TRUE]

\* collectContext of the channel returns: lines 11-29, then line 38 or 100-106;
\* these calls are awaited outside any try
ChannelCollected ==
  /\ collect.pc = "channel"
  /\ \E outcome \in Outcomes :
       LET own == collected(outcome, chat.channel, collect.limit) IN
       collect' =
         IF own.raised THEN [Raises EXCEPT !.fetched.channel = outcome]
         ELSE [collect EXCEPT
           !.messages = own.turns,
           !.fetched.channel = outcome,
           !.pc = IF collect.op = "collectThreadContext" /\ chat.hasParent
                    THEN "parent" ELSE "done",
           !.result = CASE collect.op = "collectReplyContext" ->
                             merged(chat.revision, collect.replyChain, own.turns)
                        [] collect.op = "collectThreadContext" /\ chat.hasParent -> NoTurns
                        [] OTHER -> own.turns]
  /\ UNCHANGED <<rateVars, world, handlerVars, agentVars, linearVars, chat>>

\* lines 41-49: collectContext of the parent returns, inside a try whose
\* catch returns the thread's turns
ParentCollected ==
  /\ collect.pc = "parent"
  /\ \E outcome \in Outcomes :
       LET above == collected(outcome, chat.parent, PARENT_LIMIT) IN
       collect' = [collect EXCEPT
         !.parentMessages = above.turns,
         !.fetched.parent = outcome,
         !.pc = "done",
         !.result = IF above.raised THEN collect.messages
                    ELSE threadContext(above.turns, collect.messages)]
  /\ UNCHANGED <<rateVars, world, handlerVars, agentVars, linearVars, chat>>

NextContext ==
  \/ CollectCall
  \/ WalkHop
  \/ WalkEnds
  \/ ChannelCollected
  \/ ParentCollected

InitContext ==
  /\ InitRest
  /\ InitTrackerIdle
  /\ chat \in Chats
  /\ collect = NoCollect

SpecContext == InitContext /\ [][NextContext]_vars

\* ---------------------------------------------------------------- reply bodies
\* formatResponse on bodies around the length limit, with a paragraph break, a
\* sentence end and a space at the places truncateMessage compares with

\* the lengths of the bodies
BodyLengths == {0, 1999, DISCORD_MAX_LENGTH, DISCORD_MAX_LENGTH + 1, MaxBody}
\* where a body has its last "\n\n", its last ". " and its last " " of its own
\* (index of the first character, from 0): at and next to 0.7 and 0.5 of the
\* target length, at and next to the target length; a mark at MaxBody is past
\* the end of every body, which then has no such mark
TargetLength == DISCORD_MAX_LENGTH - Len(ellipsis)
ParagraphMarks == {1383, 1384, TargetLength, TargetLength + 1, MaxBody}
SentenceMarks == {1383, 1384, TargetLength - 1, TargetLength, TargetLength + 1, MaxBody}
WordMarks == {TargetLength \div 2, TargetLength \div 2 + 1, TargetLength,
              TargetLength + 1, MaxBody}

\* the body of n letters with the marks written over them
Body(n, paragraph, sentence, word) ==
  [i \in 1..n |->
     LET j == i - 1 IN
     IF j \in {paragraph, paragraph + 1} THEN "\n"
     ELSE IF j = sentence THEN "."
     ELSE IF j = sentence + 1 THEN " "
     ELSE IF j = word THEN " "
     ELSE "a"]

\* marks that do not overwrite each other
Apart(paragraph, sentence, word) ==
  /\ paragraph + 1 < sentence \/ sentence + 1 < paragraph \/ paragraph = MaxBody
  /\ paragraph + 1 < word \/ word < paragraph \/ paragraph = MaxBody
  /\ sentence + 1 < word \/ word < sentence \/ sentence = MaxBody

Bodies ==
  { Body(n, p, s, w) : n \in BodyLengths,
                       <<p, s, w>> \in { t \in ParagraphMarks \X SentenceMarks \X WordMarks :
                                           Apart(t[1], t[2], t[3]) } }

\* formatResponse(response) returns
formatResponseCall ==
  /\ call.op = "formatResponse" /\ ret = NoRet
  /\ ret' = [raised |-> FALSE, success |-> TRUE, value |-> formatResponse(call.response)]
  /\ UNCHANGED <<setup, tracker, cache, fetches, inv, call>>
  /\ UNCHANGED <<rateVars, world, chatVars, handlerVars, agentVars>>

NextFormat == formatResponseCall

InitFormat ==
  /\ InitRest
  /\ InitChatIdle
  /\ setup = NoSetup
  /\ tracker = NoTracker
  /\ cache = EmptyCache
  /\ fetches = NoFetches
  /\ inv = [i \in Invs |-> NoInv]
  /\ \E body \in Bodies :
       call = [op |-> "formatResponse", response |-> [content |-> body, tokensUsed |-> 0]]
  /\ ret = NoRet

SpecFormat == InitFormat /\ [][NextFormat]_vars

\* ------------------------------------------------- from the collector to the model
\* the mention handler collects the context of its message and hands it to
\* processAgentRequest, which builds the message list of the first model call

\* messageCreate.ts lines 73-77: the number of turns the handler asks for
HANDLER_LIMIT == 10

\* messageCreate.ts lines 72-78: the handler calls the collector of the place
\* its message is in: a thread, a reply in a channel, or a channel
HandlerCollects(r) ==
  /\ pc[r] = "collect"
  /\ chat.op \in Operations
  /\ collect.pc = "idle"
  /\ collect' = Called(HANDLER_LIMIT)
  /\ UNCHANGED <<rateVars, world, handlerVars, agentVars, linearVars, chat>>

\* messageCreate.ts lines 73-90: the collector's call resolved and its turns
\* are the context of the AgentRequest
ContextAssembled(r) ==
  /\ collect.pc = "done" /\ ~collect.raised
  /\ ContextCollected(r, collect.result)

\* the histories: fewer and more messages in the thread or channel than the
\* handler asks for, a parent with fewer or more messages than are asked of it,
\* replies along the channel
AssembleLengths == 0..(HANDLER_LIMIT + 2)
AssembleChats ==
  { [op |-> "collectContext", revision |-> "services",
     channel |-> ChannelHistory(n, "two", "distinct", "none", "none"),
     parent |-> <<>>, hasParent |-> FALSE] : n \in AssembleLengths }
  \cup
  { [op |-> "collectThreadContext", revision |-> "services",
     channel |-> ChannelHistory(n, "two", "distinct", "none", "none"),
     parent |-> ParentHistory(pn, pp), hasParent |-> has] :
      n \in AssembleLengths, pn \in ParentLengths, pp \in ParentPatterns, has \in BOOLEAN }
  \cup
  { [op |-> "collectReplyContext", revision |-> v,
     channel |-> ChannelHistory(n, "two", "distinct", r, "none"),
     parent |-> <<>>, hasParent |-> FALSE] :
      v \in Revisions, n \in AssembleLengths \ {0, 1},
      r \in {"previous", "newest", "second"} }

NextAssemble ==
  \/ HandlerCollects("r1")
  \/ WalkHop
  \/ WalkEnds
  \/ ChannelCollected
  \/ ParentCollected
  \/ ContextAssembled("r1")
  \/ processAgentRequest("r1")

InitAssemble ==
  /\ InitTrackerIdle
  /\ now = 0
  /\ rateLimits = [u \in Callers |-> NoBucket]
  /\ lastResult = [u \in Callers |-> NoResult]
  /\ burst = [u \in Callers |-> NoBurst]
  /\ lastCleaned = 0
  /\ unswept = NoUnswept
  /\ window = NoWindow
  /\ limits = [checks |-> [u \in Callers |-> 0], tierChange |-> FALSE]
  /\ world = [NoWorld EXCEPT !.reqs = {"r1"}, !.callers = {"u1"}]
  /\ chat \in AssembleChats
  /\ collect = NoCollect
  /\ req = [r \in Reqs |-> IF r = "r1"
               THEN [NoReq EXCEPT !.path = "mention", !.text = "chat", !.prompt = "chat",
                                  !.feature = "basic_chat", !.caller = "u1"]
               ELSE NoReq]
  /\ perm = [r \in Reqs |-> IF r = "r1"
               THEN [allowed |-> TRUE, tier |-> "premium", reason |-> "none"] ELSE NoPerm]
  /\ pc = [r \in Reqs |-> IF r = "r1" THEN "collect" ELSE "idle"]
  /\ agentState = [r \in Reqs |-> "Idle"]
  /\ ctx = [r \in Reqs |-> <<>>]
  /\ rl = [r \in Reqs |-> NoResult]
  /\ replies = [r \in Reqs |-> <<>>]
  /\ stages = [r \in Reqs |-> <<>>]
  /\ messages = [r \in Reqs |-> <<>>]
  /\ iterations = [r \in Reqs |-> 0]
  /\ totalTokens = [r \in Reqs |-> 0]
  /\ response = [r \in Reqs |-> NoResponse]
  /\ toolResults = [r \in Reqs |-> <<>>]
  /\ agentResult = [r \in Reqs |-> NoAgentResult]
  /\ modelCalls = [r \in Reqs |-> <<>>]
  /\ responses = [r \in Reqs |-> <<>>]
  /\ execLog = [r \in Reqs |-> <<>>]
  /\ failure = [r \in Reqs |-> "none"]

SpecAssemble == InitAssemble /\ [][NextAssemble]_vars


\* ------------------------------------------------------------ C14, C15
\* the query as the resolvers normalise it, and the entities it selects
Resolving == call.op = "find" /\ call.query.str /\ call.listResult.success
Normalized == trim(toLowerCase(call.query.chars))
Entities == { call.listResult.list[i] : i \in 1..Len(call.listResult.list) }
FieldsOf(e) == { NameFields(call.kind, e)[f] : f \in 1..Len(NameFields(call.kind, e)) }
ExactMatches == { e \in Entities : Normalized \in FieldsOf(e) }
SubstringMatches == { e \in Entities : \E n \in FieldsOf(e) : includes(n, Normalized) }

\* C14: when some entity of the list equals the trimmed, case-folded query on
\* one of its name fields, the resolver returns an entity that does, never an
\* ambiguous or notFound outcome, whatever else contains the query.
C14_ExactMatchWins ==
  (Resolving /\ ExactMatches # {}) => (ret.success /\ ret.entity \in ExactMatches)

\* an exact match was returned while two other entities contain the query
C14_Witness ==
  /\ Resolving
  /\ ExactMatches # {}
  /\ Cardinality(SubstringMatches \ ExactMatches) >= 1
  /\ Cardinality(SubstringMatches) >= 2
  /\ ret.success
  /\ call.query.chars # Normalized

\* C15: with no exact match, no entity containing the query gives notFound,
\* exactly one gives that entity, two or more give ambiguous with the name of
\* every entity that contains the query.
C15_SubstringCountDecides ==
  (Resolving /\ ExactMatches = {}) =>
     /\ SubstringMatches = {} => (~ret.success /\ ret.error.kind = "notFound")
     /\ Cardinality(SubstringMatches) = 1 => (ret.success /\ ret.entity \in SubstringMatches)
     /\ Cardinality(SubstringMatches) >= 2 =>
          /\ ~ret.success
          /\ ret.error.kind = "ambiguous"
          /\ Len(ret.error.names) >= 2
          /\ Len(ret.error.names) = Cardinality(SubstringMatches)
          /\ { ret.error.names[i] : i \in 1..Len(ret.error.names) }
               = { e.name : e \in SubstringMatches }

\* two entities contain the query, none equals it, and both are named
C15_Witness ==
  /\ Resolving
  /\ ExactMatches = {}
  /\ Cardinality(SubstringMatches) >= 2
  /\ ret.error.kind = "ambiguous"
  /\ Len(ret.error.names) >= 2

\* ----------------------------------------------------------------- C16
\* <letters>-<digits>: one hyphen, letters before it, digits after it
WellFormed(s) ==
  \E h \in 2..(Len(s) - 1) :
    /\ s[h] = "-"
    /\ \A i \in 1..(h - 1) : s[i] \in Letters
    /\ \A i \in (h + 1)..Len(s) : s[i] \in Digits
AfterHyphen(s) == LET h == CHOOSE i \in 1..Len(s) : s[i] = "-" IN SubSeq(s, h + 1, Len(s))
RECURSIVE Pow10(_)
Pow10(n) == IF n = 0 THEN 1 ELSE 10 * Pow10(n - 1)
RECURSIVE DecimalValue(_)
DecimalValue(d) ==
  IF d = <<>> THEN 0 ELSE DigitOf(Head(d)) * Pow10(Len(d) - 1) + DecimalValue(Tail(d))

\* C16: a lookup by an identifier that is not <letters>-<digits> returns the
\* format error without having sent a query; a lookup by a well-formed one
\* sends one query, for the number written after the hyphen.
C16_MalformedIdentifierRejectedEarly ==
  \A c \in Slots :
    LET s == fetches.slot[c] IN
    (s.op = "get" /\ s.args.str) =>
      IF WellFormed(s.args.chars)
        THEN /\ s.queries = 1
             /\ s.request.op = "getIssue"
             /\ s.request.number = DecimalValue(AfterHyphen(s.args.chars))
        ELSE /\ s.pc = "returned"
             /\ s.queries = 0
             /\ s.request = NoRequest
             /\ ~s.result.success
             /\ s.result.error = FORMAT_ERROR

\* an identifier of letters and digits without a hyphen was rejected unsent
C16_Witness ==
  \E c \in Slots :
    LET s == fetches.slot[c] IN
    /\ s.op = "get"
    /\ s.args.str
    /\ Len(s.args.chars) >= 2
    /\ s.args.chars[1] \in Letters
    /\ \A i \in 2..Len(s.args.chars) : s.args.chars[i] \in Digits
    /\ s.pc = "returned"
    /\ s.queries = 0
    /\ s.result.error = FORMAT_ERROR

\* ----------------------------------------------------------------- C17
\* C17: no operation of the tracker client raises to its caller; whatever
\* the reply to its query was, a returned call carries a result, and the result of
\* a query that failed has success = false and an error.
C17_NoOperationRaises ==
  \A c \in Slots :
    LET s == fetches.slot[c] IN
    s.pc = "returned" => ~s.result.raised

\* ----------------------------------------------------------------- C19
\* a list call is made in slot c by this step
ListCalled(c) ==
  /\ fetches.slot[c].pc \in {"idle", "returned"}
  /\ fetches'.slot[c] # fetches.slot[c]
  /\ fetches'.slot[c].op = "getList"
\* the reply to the query of a list call arrives in this step
ListFetched(c) ==
  /\ fetches.slot[c].pc = "awaiting"
  /\ fetches'.slot[c].pc = "returned"
  /\ fetches.slot[c].op = "getList"

\* C19: a list call made less than the TTL after the last successful fetch
\* for its scope sends no query and returns the entities of that fetch; any
\* other list call sends exactly one query; when the reply is a success the entry
\* of the scope becomes the fetched list, stamped now; when it is a failure the
\* call returns a failure and the cache is as it was.
C19_CacheWithinTtl ==
  [][ \A c \in Slots :
        LET after == fetches'.slot[c]
            last == fetches.last[after.kind][after.scope]
        IN
        /\ ListCalled(c) =>
             IF last # NoEntry /\ now - last.timestamp < CACHE_TTL_MS
               THEN /\ after.pc = "returned"
                    /\ after.queries = 0
                    /\ after.result.success
                    /\ after.result.value = last.data
                    /\ cache' = cache
               ELSE /\ after.pc = "awaiting"
                    /\ after.queries = 1
                    /\ after.request.op = after.kind
                    /\ cache' = cache
        /\ ListFetched(c) =>
             /\ after.queries = 1
             /\ IF after.result.success
                  THEN cache' = [cache EXCEPT ![after.kind][after.scope] =
                                  [data |-> after.result.value, timestamp |-> now]]
                  ELSE /\ cache' = cache
                       /\ after.result.error # "none"
    ]_vars

\* one caller was served from the cache while the other had found an entry
\* aged at least the TTL and fetched the list again
C19_Witness ==
  \E c, d \in Slots :
    /\ fetches.slot[c].op = "getList"
    /\ fetches.slot[c].pc = "returned"
    /\ fetches.slot[c].queries = 0
    /\ fetches.slot[c].found = "fresh"
    /\ fetches.slot[d].op = "getList"
    /\ fetches.slot[d].pc = "returned"
    /\ fetches.slot[d].queries = 1
    /\ fetches.slot[d].found = "expired"
    /\ fetches.slot[d].result.success

\* ------------------------------------------------------ C11, C12, C13, C18
\* the resolver calls of invocation i that returned a failure, and the ids that
\* its label resolutions returned
FailedOutcomes(i) ==
  { k \in 1..Len(inv[i].outcomes) :
      ~inv[i].outcomes[k].found.success /\ ~inv[i].outcomes[k].found.raised }
ResolvedLabelIds(i) ==
  { inv[i].outcomes[k].found.entity.id :
      k \in { n \in 1..Len(inv[i].outcomes) :
                inv[i].outcomes[n].field = "label" /\ inv[i].outcomes[n].found.success } }
Finished(i) == inv[i].pc \in {"done", "raised"}
ListedErrors(i) == { inv[i].result.errors[k] : k \in 1..Len(inv[i].result.errors) }

\* C11: when the resolution of a requested assignee, label or project
\* failed, the tool returns one failure that lists the error of every failed
\* resolution, and it has sent no update mutation; two members matched by
\* substring are both named.
C11_ResolutionErrorsCollected ==
  \A i \in Invs :
    (Finished(i) /\ FailedOutcomes(i) # {}) =>
       /\ inv[i].pc = "done"
       /\ ~inv[i].result.success
       /\ inv[i].result.kind = "resolution"
       /\ inv[i].sent = NoRequest
       /\ \A k \in FailedOutcomes(i) :
            [field |-> inv[i].outcomes[k].field,
             kind |-> inv[i].outcomes[k].found.error.kind,
             names |-> inv[i].outcomes[k].found.error.names] \in ListedErrors(i)
       /\ \A e \in ListedErrors(i) :
            (e.field = "assignee" /\ e.kind = "ambiguous") => Len(e.names) >= 2

\* C12: the label ids of a submitted update are the ids read from the issue
\* together with the ids the requested labels resolved to; an update without
\* requested labels carries no label ids.
C12_SubmittedLabelsAreUnion ==
  \A i \in Invs :
    inv[i].sent # NoRequest =>
      IF Len(inv[i].input.labels) > 0
        THEN /\ inv[i].sent.labelIds.given
             /\ Cardinality(FailedOutcomes(i)) = 0
             /\ inv[i].sent.labelIds.ids = inv[i].read.labels \cup ResolvedLabelIds(i)
        ELSE ~inv[i].sent.labelIds.given

\* current {L1, L3}, requested labels resolving to {L3, L2}: {L1, L2, L3} submitted
C12_Witness ==
  \E i \in Invs :
    /\ inv[i].pc = "done"
    /\ inv[i].result.success
    /\ inv[i].read.labels = {"L1", "L3"}
    /\ ResolvedLabelIds(i) = {"L2", "L3"}
    /\ inv[i].sent.labelIds.ids = {"L1", "L2", "L3"}
    /\ tracker.issueLabels = {"L1", "L2", "L3"}

\* C13: after two invocations that add different labels to the same issue
\* have both completed with success, in whatever order their steps interleaved,
\* the issue holds the labels it held before and both added labels.
C13_ConcurrentLabelsPreserved ==
  (setup.spec = "update" /\ setup.invs = Invs
     /\ \A i \in Invs : inv[i].pc = "done" /\ inv[i].result.success)
  => (setup.before \cup UNION { ResolvedLabelIds(i) : i \in Invs }) \subseteq tracker.issueLabels

\* C18: a status token outside the closed vocabulary does not cause the
\* update to be rejected: no status error is collected for it and the tool does
\* not raise on it.
C18_UnknownTokenNotRejected ==
  \A i \in Invs :
    (inv[i].pc # "idle" /\ inv[i].input.status \notin (StatusTokens \cup {Absent})) =>
       /\ \A k \in 1..Len(inv[i].errors) : inv[i].errors[k].field # "status"
       /\ inv[i].pc = "raised" => Len(inv[i].outcomes) > 0

\* ----------------------------------------------------------------- C20
\* the tiers to which the role map maps a role of the caller
MappedTiers ==
  IF ~call.member.guild THEN {}
  ELSE { call.perms[k].tier : k \in { n \in 1..Len(call.perms) :
                                       call.perms[n].roleId \in call.member.roles } }
Highest(tiers) ==
  IF "admin" \in tiers THEN "admin" ELSE IF "premium" \in tiers THEN "premium" ELSE "free"

\* C20: under every role map the tier of a caller is the highest tier that
\* one of the caller's roles is mapped to; a caller without a mapped role, or
\* outside a guild, is free with the feature basic_chat alone.
C20_HighestMappedTier ==
  (call.op = "classify" /\ ret # NoRet) =>
     /\ ret.tier = Highest(MappedTiers)
     /\ ret.permission.tier = Highest(MappedTiers)
     /\ MappedTiers = {} => ret.permission.features = {"basic_chat"}
     /\ MappedTiers # {} =>
          \E k \in 1..Len(call.perms) :
            /\ call.perms[k].roleId \in call.member.roles
            /\ ret.permission = call.perms[k]

\* a caller whose first mapped role is free and a later one admin was classified
C20_Witness ==
  /\ call.op = "classify"
  /\ ret # NoRet
  /\ Len(call.perms) >= 2
  /\ call.perms[1].tier = "free"
  /\ call.perms[1].roleId \in call.member.roles
  /\ call.perms[2].tier = "admin"
  /\ call.perms[2].roleId \in call.member.roles
  /\ ret.tier = "admin"

\* ----------------------------------------------------------------- C21
\* C21: under one role map, every caller that the classifier puts into the
\* tier of the caller just classified gets the same feature set, whether a
\* mapped role or the absence of one produced the tier.
C21_FeaturesDependOnTierOnly ==
  (call.op = "classify" /\ ret # NoRet) =>
     \A other \in Classified :
        getUserPermission(other, call.perms).tier = ret.permission.tier =>
           getUserPermission(other, call.perms).features = ret.permission.features

\* ----------------------------------------------------------------- C22
\* the classifications made so far
Classifications == HistoryOf(ret)

Collected(op) == collect.pc = "done" /\ collect.op = op

\* the turn of a message, and the newest k turns of a history, oldest first
TurnOf(message) == messageToContext(message)
NewestTurns(history, k) ==
  LET n == Len(history)
      size == IF k < n THEN k ELSE n
  IN [j \in 1..size |-> TurnOf(history[n - size + j])]

\* C23: when its fetch succeeds, collectContext returns min(limit, number of
\* messages) turns, which are those of the newest messages of the channel,
\* the oldest of them first.
C23_RecentTurnsOldestFirst ==
  (Collected("collectContext") /\ collect.fetched.channel = "ok") =>
     /\ ~collect.raised
     /\ Len(collect.result) <= collect.limit
     /\ collect.result = NewestTurns(chat.channel, collect.limit)

\* a channel with more messages than the limit of two or more was collected
C23_Witness ==
  /\ Collected("collectContext")
  /\ collect.fetched.channel = "ok"
  /\ collect.limit >= 2
  /\ Len(chat.channel) > collect.limit
  /\ Len(collect.result) = collect.limit
  /\ collect.result[1].timestamp # collect.result[2].timestamp

\* the thread's own transcript: empty when its fetch failed
OwnTranscript ==
  IF collect.fetched.channel = "ok" THEN NewestTurns(chat.channel, collect.limit) ELSE NoTurns

\* C24: collectThreadContext returns the thread's transcript, preceded by the
\* newest PARENT_LIMIT turns of the parent when there is a parent and its fetch
\* succeeds; without a parent or when the parent's fetch fails it returns the
\* thread's transcript alone; it never raises.
C24_ThreadContextWithParent ==
  Collected("collectThreadContext") =>
     /\ ~collect.raised
     /\ Len(OwnTranscript) <= collect.limit
     /\ IF chat.hasParent /\ collect.fetched.parent = "ok"
          THEN /\ collect.result = NewestTurns(chat.parent, PARENT_LIMIT) \o OwnTranscript
               /\ Len(collect.result) - Len(OwnTranscript) <= PARENT_LIMIT
          ELSE collect.result = OwnTranscript

\* a parent with more than PARENT_LIMIT messages was put before a thread's turns
C24_Witness ==
  /\ Collected("collectThreadContext")
  /\ chat.hasParent
  /\ Len(chat.parent) > PARENT_LIMIT
  /\ collect.fetched.parent = "ok"
  /\ collect.fetched.channel = "ok"
  /\ Len(chat.channel) >= 2
  /\ Len(collect.result) = PARENT_LIMIT + Len(OwnTranscript)
  /\ Len(OwnTranscript) >= 2

\* the walk of collectReplyContext has begun
Walking == collect.pc # "idle" /\ collect.op = "collectReplyContext"
Trigger == chat.channel[Len(chat.channel)]
\* the message from which hop k starts
HopFrom(k) == IF k = 1 THEN Trigger ELSE chat.channel[collect.walked[k - 1]]

\* C25: the walk makes at most MAX_DEPTH fetches, each hop goes to the message
\* the previous one replies to, the chain lists the turns reached in the
\* reverse order of the walk (the farthest first), a failed hop ends the walk
\* with the turns collected before it, and the chain opens the result.
C25_ReplyWalkBounded ==
  Walking =>
     /\ ~collect.raised
     /\ collect.hops <= MAX_DEPTH
     /\ collect.depth = Len(collect.walked)
     /\ Len(collect.replyChain) = collect.depth
     /\ \A k \in 1..Len(collect.walked) :
          /\ HopFrom(k).reference.exists
          /\ HopFrom(k).reference.messageId = collect.walked[k]
          /\ collect.replyChain[Len(collect.walked) - k + 1]
               = TurnOf(chat.channel[collect.walked[k]])
     /\ collect.stopped = "failed" => collect.hops = collect.depth + 1
     /\ collect.stopped \in {"root", "depth", "noId"} => collect.hops = collect.depth
     /\ collect.pc = "done" =>
          /\ Len(collect.result) >= Len(collect.replyChain)
          /\ SubSeq(collect.result, 1, Len(collect.replyChain)) = collect.replyChain

\* a chain of more than MAX_DEPTH replies was followed for MAX_DEPTH hops and
\* then left, although the last message reached is a reply itself
C25_Witness ==
  /\ Collected("collectReplyContext")
  /\ collect.stopped = "depth"
  /\ collect.depth = MAX_DEPTH
  /\ chat.channel[collect.walked[MAX_DEPTH]].reference.exists
  /\ Len(collect.result) >= MAX_DEPTH

\* every reply names an older message, as the transport has it
RepliesToOlder ==
  \A i \in 1..Len(chat.channel) :
     chat.channel[i].reference.exists => chat.channel[i].reference.messageId < i

SamePair(a, b) == a.author = b.author /\ a.timestamp = b.timestamp
InChain(m) == \E i \in 1..Len(collect.replyChain) : SamePair(collect.replyChain[i], m)
Occurrences(turn) ==
  Cardinality({ k \in 1..Len(collect.result) : collect.result[k] = turn })

\* C26: the result is the reply chain followed by the turns of the channel
\* transcript, in order, of which exactly those are left out whose author and
\* timestamp both equal those of a chain entry; every message reached by the
\* walk is in the result once.
C26_DedupByAuthorAndTimestamp ==
  (Collected("collectReplyContext") /\ RepliesToOlder) =>
     /\ collect.result =
          collect.replyChain \o SelectSeq(collect.messages, LAMBDA m : ~InChain(m))
     /\ \A k \in 1..Len(collect.walked) :
          Occurrences(TurnOf(chat.channel[collect.walked[k]])) = 1

\* the instant a timestamp text stands for
TimeValue(text) == CHOOSE t \in Times : toISOString(t) = text

\* C27: every transcript returned is in chronological order, oldest first,
\* for the channel, the thread and the reply variant.
C27_TranscriptChronological ==
  (collect.pc = "done" /\ RepliesToOlder) =>
     \A i, j \in 1..Len(collect.result) :
        i < j => TimeValue(collect.result[i].timestamp) <= TimeValue(collect.result[j].timestamp)

\* C28: no collector call raises, whichever fetches fail, and collectContext
\* returns the empty sequence when its fetch fails.
C28_NoCollectorRaises ==
  collect.pc # "idle" =>
     /\ ~collect.raised
     /\ (Collected("collectContext") /\ collect.fetched.channel = "fail") =>
           collect.result = NoTurns
     /\ (collect.pc = "done" /\ collect.fetched.channel = "fail"
           /\ collect.op = "collectReplyContext") => collect.result = collect.replyChain

\* a reply walk ended by a failed hop was followed by a failed channel fetch,
\* and the call returned the turns of the walk
C28_Witness ==
  /\ Collected("collectReplyContext")
  /\ collect.stopped = "failed"
  /\ collect.fetched.channel = "fail"
  /\ Len(collect.result) >= 1
  /\ ~collect.raised

\* ----------------------------------------------------------------- C29
\* a step in which caller u is checked at the tier of its previous check
\* (remaining and resetAt of a result tell a denial from an admission even
\* when two checks fall into the same millisecond)
CheckedAgain(u) ==
  /\ burst'[u].n = burst[u].n + 1
  /\ lastResult[u].tier \in Tiers
  /\ lastResult'[u].tier = lastResult[u].tier

\* C29: when the previous check of a caller was denied with reset instant R,
\* the caller's next check at the same tier, made at R or later, is allowed.
C29_RetryAfterSufficient ==
  [][\A u \in Callers :
       (CheckedAgain(u) /\ ~lastResult[u].allowed /\ now >= lastResult[u].resetAt)
         => lastResult'[u].allowed]_vars

\* ----------------------------------------------------------------- C30
\* a step that is a sweep with maximal age unswept'.maxAge removes the buckets
\* refilled more than that many seconds ago and no other, returns their
\* number, and changes no result
Swept(maxAgeSeconds) ==
  { u \in Callers : rateLimits[u] # NoBucket
                    /\ now - rateLimits[u].lastRefillTime > maxAgeSeconds * 1000 }
SweepExact ==
  (unswept.on /\ unswept'.sweeps = unswept.sweeps + 1) =>
     /\ rateLimits' = [u \in Callers |->
                         IF u \in Swept(unswept'.maxAge) THEN NoBucket ELSE rateLimits[u]]
     /\ lastCleaned' = Cardinality(Swept(unswept'.maxAge))
     /\ lastResult' = lastResult

\* C30 as stated: a sweep removes exactly the buckets older than maxAge, and
\* for every maxAge every check is admitted or denied as it is on a limiter
\* that is never swept.
C30_SweepNotObservable ==
  /\ [](unswept.on =>
          \A u \in Callers : lastResult[u].allowed = unswept.lastResult[u].allowed)
  /\ [][SweepExact]_vars

\* C30, amended: a sweep removes exactly the buckets older than maxAge, and
\* when no sweep had a maxAge below the longest time a tier needs to fill an
\* empty bucket (capacity / refillRate: 30 s, free), every check returns what
\* it returns on a limiter that is never swept, and every bucket that exists
\* equals the unswept one.
C30_LongSweepNotObservable ==
  /\ []((unswept.on /\ unswept.shortest * 1000 >= LongestRefill) =>
          \A u \in Callers :
             /\ lastResult[u] = unswept.lastResult[u]
             /\ rateLimits[u] # NoBucket => rateLimits[u] = unswept.rateLimits[u])
  /\ [][SweepExact]_vars

\* a sweep with maxAge of the longest refill removed the bucket of u1 and kept
\* that of u2; u1 was then checked again and admitted on both limiters
C30_Witness ==
  /\ unswept.on
  /\ unswept.sweeps = 1
  /\ unswept.shortest * 1000 = LongestRefill
  /\ lastCleaned = 1
  /\ rateLimits["u2"] # NoBucket
  /\ rateLimits["u2"].lastRefillTime < now
  /\ burst["u1"].n = 1
  /\ burst["u1"].start = now
  /\ lastResult["u1"].allowed
  /\ lastResult["u1"].tier = "free"
  /\ unswept.lastResult["u1"].at = now


\* ------------------------------------------------------------------ C31
\* C31: a checkRateLimit or a resetRateLimit for caller a leaves the bucket of
\* every other caller b as it was (tokens, last refill time, capacity, rate),
\* and with it the result of any next check of b, whatever its tier and instant
C31_OtherBucketsUntouched ==
  [][\A a \in Callers :
       ((\E tier \in Tiers : checkRateLimit(a, tier)) \/ resetRateLimit(a))
         => \A b \in Callers \ {a} :
              /\ rateLimits'[b] = rateLimits[b]
              /\ \A tier \in Tiers, t \in Instants :
                    CheckOutcome(rateLimits'[b], tier, t)
                      = CheckOutcome(rateLimits[b], tier, t)]_vars

\* both callers hold a bucket, u2's is partly used, and u1 was checked or reset
\* after u2's bucket was last written
C31_Witness ==
  /\ rateLimits["u2"] # NoBucket
  /\ rateLimits["u2"].tokens < rateLimits["u2"].maxTokens
  /\ rateLimits["u2"].lastRefillTime < now
  /\ lastResult["u1"].at = now
  /\ burst["u1"].n = MaxChecks

\* ------------------------------------------------------------------ C32
\* the final reply of r is being delivered: editReply of the slash handler,
\* reply of the mention handler
Delivering(r) == pc[r] \in {"editReply", "replyAnswer"}

\* C32: when the transport rejects the delivery of the final reply because the
\* request context is abandoned, the delivery is a no-op: the handler is done
\* at once, without raising, without another call to the transport and without
\* further work
C32_AbandonedDeliveryIsNoOp ==
  [][\A r \in Reqs :
       (Delivering(r) /\ pc'[r] # pc[r] /\ replies'[r] = replies[r])
         => pc'[r] = "done"]_vars

\* ------------------------------------------------------------------ C33
\* input plus output tokens, summed over the responses received
RECURSIVE UsageOf(_)
UsageOf(received) ==
  IF received = <<>> THEN 0 ELSE Head(received).usage + UsageOf(Tail(received))

\* C33: the tokensUsed of every AgentResponse returned is the sum of the usage
\* of all model calls that completed in the run, whether the run ended with a
\* final response, at the iteration bound, or in Failed
C33_TokensUsedIsSumOfUsage ==
  \A r \in Reqs :
    agentResult[r] # NoAgentResult
      => /\ agentResult[r].tokensUsed = UsageOf(responses[r])
         /\ Len(responses[r]) <= MAX_ITERATIONS + 1
         /\ agentState[r] = "Done" /\ messages[r] # <<>> /\ ~IsBlank(req[r].prompt)
              => Len(responses[r]) = iterations[r] + 1

\* a run that ended at the iteration bound after MAX_ITERATIONS + 1 model
\* calls with different usage
C33_Witness ==
  \E r \in Reqs :
    /\ agentState[r] = "Done"
    /\ iterations[r] = MAX_ITERATIONS
    /\ response[r].stop = "tool_use"
    /\ Len(responses[r]) = MAX_ITERATIONS + 1
    /\ \E i, j \in 1..Len(responses[r]) : responses[r][i].usage # responses[r][j].usage
    /\ agentResult[r].tokensUsed = UsageOf(responses[r])

\* ------------------------------------------------------------------ C34
\* formatResponse has returned
Formatted == call.op = "formatResponse" /\ ret # NoRet

\* C34: formatResponse returns at most 2000 characters: a body of at most 2000
\* characters unchanged, a longer one as a prefix of the body followed by the
\* truncation marker, the two together no longer than 2000 characters
C34_ReplyWithinLimit ==
  Formatted =>
    LET body == call.response.content
        out == ret.value
        kept == Len(out) - Len(ellipsis)
    IN /\ Len(out) <= DISCORD_MAX_LENGTH
       /\ Len(body) <= DISCORD_MAX_LENGTH => out = body
       /\ Len(body) > DISCORD_MAX_LENGTH
            => /\ kept >= 0
               /\ SubSeq(out, 1, kept) = SubSeq(body, 1, kept)
               /\ SubSeq(out, kept + 1, Len(out)) = ellipsis

\* ------------------------------------------------------------------ C35
\* C35: for one caller at a fixed tier, without reset or sweep, the allowed
\* checks in the window from any instant to any later allowed check number at
\* most capacity + T * refillRate, T the length of the window
C35_SustainedRateBound ==
  window.on =>
    window.allowed * TokenUnit
      <= RATE_LIMITS[window.tier].maxTokens
         + (window.last - window.from) * RATE_LIMITS[window.tier].refillRate

\* a window that starts after earlier checks of the caller, lasts a token
\* period or longer and is used up to the bound
C35_Witness ==
  /\ window.on
  /\ burst[window.caller].start < window.from
  /\ window.last - window.from >= TokenPeriod(window.tier)
  /\ window.allowed * TokenUnit
       = RATE_LIMITS[window.tier].maxTokens
         + (window.last - window.from) * RATE_LIMITS[window.tier].refillRate

\* ------------------------------------------------------------------ C36
\* the first model call of r was made with the context the collector returned
FirstCallMade(r) ==
  Len(modelCalls[r]) = 1 /\ collect.pc = "done" /\ ctx[r] = collect.result

\* turn is in the message list, with the role processAgentRequest gives it
Reaches(turn, list) ==
  \E j \in 1..Len(list) :
    /\ list[j].content = turn.content
    /\ list[j].role = (IF turn.role = "user" THEN "user" ELSE "assistant")

\* C36: every non-empty turn the collector returned for the request (the
\* parent's turns and the thread's, the reply chain and the channel's turns) is
\* in the message list of the first model call
C36_AssembledContextReachesModel ==
  \A r \in Reqs :
    FirstCallMade(r) =>
      \A i \in 1..Len(collect.result) :
        ~IsBlank(collect.result[i].content) => Reaches(collect.result[i], messages[r])

\* ------------------------------------------------------------------ C37
BeforeHyphen(s) == LET h == CHOOSE i \in 1..Len(s) : s[i] = "-" IN SubSeq(s, 1, h - 1)

\* C37: the issue a lookup by identifier returns has the identifier asked for,
\* prefix and number; so an identifier with another prefix than the key of the
\* configured team resolves to no issue of that team. (No two letters explored
\* differ by case only.)
C37_LookupReturnsRequestedIdentifier ==
  \A c \in Slots :
    LET s == fetches.slot[c] IN
    (s.op = "get" /\ s.pc = "returned" /\ s.result.success) =>
      /\ s.result.value.number = DecimalValue(AfterHyphen(s.args.chars))
      /\ s.result.value.key = BeforeHyphen(s.args.chars)

\* ------------------------------------------------------------------ C38
\* the update mutation carries a value for the field
InMutation(f, sent) ==
  CASE f = "status" -> sent.stateId # Absent
    [] f = "priority" -> sent.priority # NoNumber
    [] f = "assignee" -> sent.assigneeId # Absent
    [] f = "labels" -> sent.labelIds.given
    [] f = "project" -> sent.projectId # Absent
    [] OTHER -> sent.title # Absent

\* C38: every field that the result of a successful update reports as changed
\* was part of the mutation submitted; a status whose workflow states could
\* not be fetched is not reported as changed
C38_ChangeSummaryTruthful ==
  \A i \in Invs :
    (inv[i].pc = "done" /\ inv[i].result.kind = "updated") =>
      \A f \in inv[i].result.changes : InMutation(f, inv[i].sent)

\* ------------------------------------------------------------------ C39
\* r is a mention that passed the permission check and the rate limit check
AdmittedMention(r) ==
  req[r] # NoReq /\ req[r].path = "mention" /\ rl[r] # NoResult /\ rl[r].allowed

\* the calls of the mention handler that deliver no text: the typing
\* indicator, adding a reaction, removing a reaction
AuxiliaryCalls ==
  {"sendTyping", "reactThinking", "removeThinking", "reactSuccess", "catchRemove",
   "catchReact"}

\* C39: an admitted mention gets exactly one textual reply, the answer or the
\* apology, whichever auxiliary calls of the transport fail: never two replies,
\* one reply when the handler is done, and no failing auxiliary call ends the
\* handler before a reply was delivered
C39_ExactlyOneReply ==
  /\ [](\A r \in Reqs :
          AdmittedMention(r) =>
            /\ Len(replies[r]) <= 1
            /\ pc[r] = "done" =>
                 (Len(replies[r]) = 1 /\ replies[r][1].kind \in {"answer", "apology"}))
  /\ [][\A r \in Reqs :
          (AdmittedMention(r) /\ pc[r] \in AuxiliaryCalls /\ pc'[r] = "rejected")
            => replies[r] # <<>>]_vars

\* ------------------------------------------------------------------ C40
\* the matches of the phase that decides: the exact ones when there are any
DecidingMatches == IF ExactMatches # {} THEN ExactMatches ELSE SubstringMatches

\* C40: a resolver returns an entity only when it is the one match of the
\* deciding phase; when two or more entities equal the query the outcome is
\* ambiguous and names them
C40_ResolvedOnlyWhenUnique ==
  Resolving =>
    /\ ret.success => DecidingMatches = {ret.entity}
    /\ Cardinality(ExactMatches) >= 2 =>
         /\ ~ret.success
         /\ ret.error.kind = "ambiguous"
         /\ { ret.error.names[i] : i \in 1..Len(ret.error.names) }
              = { e.name : e \in ExactMatches }

====
